---- MODULE Spec2Model ----
(***************************************************************************)
(* Model of the iop-lsp symbol index (iop_lsp/indexer.py), the name        *)
(* mangler (iop_lsp/c_mapping.py) and the document notifications of the    *)
(* language server (iop_lsp/server.py).                                    *)
(*                                                                         *)
(* Strings are sequences of one-character strings, so that the name        *)
(* conversions are computed character by character as the code does.       *)
(* Python dicts are functions whose DOMAIN is the set of keys; by_name     *)
(* also carries its key order (by_name_keys), because resolve_enum_value   *)
(* iterates over by_name.values() in dict insertion order.                 *)
(***************************************************************************)
EXTENDS Integers, Sequences, FiniteSets, TLC

VARIABLES
  index,     \* Indexer.index, the SymbolIndex
  added,     \* history: the symbols now indexed, in the order add_symbol got them
  last,      \* history: the last operation applied to the index
  pc,        \* position of the server's running notification handler
  job,       \* the notification being handled and the index it started from
  observed   \* answer given to the last query since the last notification

vars == <<index, added, last, pc, job, observed>>

\* Python's None where a text is expected (no text is equal to it)
None == <<"None">>

\* Python's None where a Symbol is expected
NoSymbol == [absent |-> TRUE]

(***************************************************************************)
(* Bounds of the model.                                                    *)
(***************************************************************************)
\* Largest number of top-level declarations in one source file.
MaxDecls == 2

\* Largest number of symbols held by a SymbolIndex that is used directly.
MaxHeld == 2

\* Largest number of top-level declarations in one source file of enums.
MaxEnums == 1

\* Largest number of members (fields, enum values, RPCs, module entries) of
\* one declaration.
MaxMembers == 2

\* Largest length of the identifiers drawn for the name mangler.
MaxNameLen == 5

\* Largest number of children of the node whose children the doc comments
\* are looked up among.
MaxSiblings == 3

\* Largest length of the type part of the qualified names drawn for the
\* name mangler.
MaxTypeLen == 3

Files == {"/a.iop", "/b.iop"}

\* a path that no symbol is ever added for
NeverIndexed == "/c.iop"

\* a one-segment and a two-segment package name
Packages == {<<"p">>, <<"p",".","q">>}

TypeNames == {<<"A">>, <<"B">>}

(***************************************************************************)
(* Characters.                                                             *)
(***************************************************************************)
UpperChars ==
  <<"A","B","C","D","E","F","G","H","I","J","K","L","M",
    "N","O","P","Q","R","S","T","U","V","W","X","Y","Z">>

LowerChars ==
  <<"a","b","c","d","e","f","g","h","i","j","k","l","m",
    "n","o","p","q","r","s","t","u","v","w","x","y","z">>

DigitChars == {"0","1","2","3","4","5","6","7","8","9"}

IsUpper(c) == \E i \in 1..Len(UpperChars) : UpperChars[i] = c

IsLower(c) == \E i \in 1..Len(LowerChars) : LowerChars[i] = c

IsDigit(c) == c \in DigitChars

\* str.lower() on one character
LowerChar(c) ==
  IF IsUpper(c)
    THEN LowerChars[CHOOSE i \in 1..Len(UpperChars) : UpperChars[i] = c]
    ELSE c

\* str.lower()
Lower(s) == [i \in 1..Len(s) |-> LowerChar(s[i])]

\* str.endswith(suffix)
EndsWith(s, suffix) ==
  /\ Len(suffix) <= Len(s)
  /\ SubSeq(s, Len(s) - Len(suffix) + 1, Len(s)) = suffix

\* '.' in s
HasDot(s) == \E i \in 1..Len(s) : s[i] = "."

\* index of the last '.' of s (s contains one)
LastDot(s) == CHOOSE i \in 1..Len(s) : s[i] = "." /\ \A j \in (i+1)..Len(s) : s[j] # "."

(***************************************************************************)
(* c_mapping.py                                                            *)
(***************************************************************************)
\* re.sub(r'([a-z0-9])([A-Z])', r'\1_\2', s), scanning from position i
RECURSIVE SubLowerUpper(_, _)
SubLowerUpper(s, i) ==
  IF i > Len(s) THEN <<>>
  ELSE IF i < Len(s) /\ (IsLower(s[i]) \/ IsDigit(s[i])) /\ IsUpper(s[i+1])
    THEN <<s[i], "_", s[i+1]>> \o SubLowerUpper(s, i + 2)
    ELSE <<s[i]>> \o SubLowerUpper(s, i + 1)

\* last position of the run of uppercase letters that starts at i
UpperRunEnd(s, i) ==
  CHOOSE j \in i..Len(s) :
    /\ \A k \in i..j : IsUpper(s[k])
    /\ (j = Len(s) \/ ~IsUpper(s[j+1]))

\* re.sub(r'([A-Z]+)([A-Z][a-z])', r'\1_\2', s), scanning from position i
RECURSIVE SubAcronym(_, _)
SubAcronym(s, i) ==
  IF i > Len(s) THEN <<>>
  ELSE IF IsUpper(s[i])
    THEN LET j == UpperRunEnd(s, i) IN
         IF j > i /\ j < Len(s) /\ IsLower(s[j+1])
           THEN SubSeq(s, i, j - 1) \o <<"_", s[j], s[j+1]>>
                  \o SubAcronym(s, j + 2)
           ELSE <<s[i]>> \o SubAcronym(s, i + 1)
    ELSE <<s[i]>> \o SubAcronym(s, i + 1)

\* camelcase_to_c without the substitution at acronym boundaries
camelcase_to_c_plain(name) == Lower(SubLowerUpper(name, 1))

camelcase_to_c(name) == Lower(SubAcronym(SubLowerUpper(name, 1), 1))

\* str.replace('.', '__')
RECURSIVE ReplaceDots(_)
ReplaceDots(s) ==
  IF s = <<>> THEN <<>>
  ELSE (IF Head(s) = "." THEN <<"_", "_">> ELSE <<Head(s)>>)
         \o ReplaceDots(Tail(s))

\* iop_type_to_c splitting the qualified name at its first dot
iop_type_to_c_first(qualified_name) ==
  IF HasDot(qualified_name)
    THEN LET d == CHOOSE i \in 1..Len(qualified_name) :
                    /\ qualified_name[i] = "."
                    /\ \A j \in 1..(i-1) : qualified_name[j] # "."
             pkg == SubSeq(qualified_name, 1, d - 1)
             type_name == SubSeq(qualified_name, d + 1, Len(qualified_name))
         IN ReplaceDots(pkg) \o <<"_", "_">> \o camelcase_to_c(type_name)
    ELSE camelcase_to_c(qualified_name)

iop_type_to_c(qualified_name) ==
  IF HasDot(qualified_name)
    THEN LET d == LastDot(qualified_name)
             pkg == SubSeq(qualified_name, 1, d - 1)
             type_name == SubSeq(qualified_name, d + 1, Len(qualified_name))
         IN ReplaceDots(pkg) \o <<"_", "_">> \o camelcase_to_c(type_name)
    ELSE camelcase_to_c(qualified_name)

C_TYPE_SUFFIXES ==
  << <<"_","_","a","r","r","a","y","_","t">>,
     <<"_","_","o","p","t","_","t">>,
     <<"_","_","s","p">>,
     <<"_","_","e","p">>,
     <<"_","_","t">>,
     <<"_","_","s">>,
     <<"_","_","e">> >>

\* for suffix in C_TYPE_SUFFIXES: if base.endswith(suffix): strip it; break
StripSuffix(base) ==
  IF \E i \in 1..Len(C_TYPE_SUFFIXES) : EndsWith(base, C_TYPE_SUFFIXES[i])
    THEN LET i == CHOOSE k \in 1..Len(C_TYPE_SUFFIXES) :
                    /\ EndsWith(base, C_TYPE_SUFFIXES[k])
                    /\ \A m \in 1..(k-1) : ~EndsWith(base, C_TYPE_SUFFIXES[m])
         IN SubSeq(base, 1, Len(base) - Len(C_TYPE_SUFFIXES[i]))
    ELSE base

(***************************************************************************)
(* Python dict and list helpers.                                           *)
(***************************************************************************)
EmptyDict == [k \in {} |-> None]

\* d.get(k, default)
Get(d, k, default) == IF k \in DOMAIN d THEN d[k] ELSE default

\* d[k] = v
Put(d, k, v) == [x \in (DOMAIN d) \cup {k} |-> IF x = k THEN v ELSE d[x]]

\* d.pop(k, None) / del d[k]
Pop(d, k) == [x \in (DOMAIN d) \ {k} |-> d[x]]

\* [s for s in list if s.file != filepath]
RECURSIVE NotOfFile(_, _)
NotOfFile(list, filepath) ==
  IF list = <<>> THEN <<>>
  ELSE (IF Head(list).file # filepath THEN <<Head(list)>> ELSE <<>>)
         \o NotOfFile(Tail(list), filepath)

\* key order of a dict after d[k] = v: a new key goes last
KeysPut(keys, k) ==
  IF \E i \in 1..Len(keys) : keys[i] = k THEN keys ELSE Append(keys, k)

\* key order of a dict after del d[k]
KeysPop(keys, k) == SelectSeq(keys, LAMBDA x : x # k)

\* the elements of a list
Range(list) == {list[i] : i \in 1..Len(list)}

(***************************************************************************)
(* SymbolIndex (indexer.py)                                                *)
(***************************************************************************)
EmptyIndex ==
  [by_name |-> EmptyDict, by_name_keys |-> <<>>,
   by_qualified_name |-> EmptyDict, by_package |-> EmptyDict,
   by_file |-> EmptyDict, package_of_file |-> EmptyDict,
   by_c_name |-> EmptyDict]

\* `if sym.ctype:` is false for None and for the empty string
Truthy(s) == s # None /\ s # <<>>

\* add_symbol putting the symbol first in its by_name bucket
add_symbol_front(idx, sym) ==
  LET c_name == iop_type_to_c(sym.qualified_name)
      c1 == Put(idx.by_c_name, c_name, sym)
      c2 == IF Truthy(sym.ctype) THEN Put(c1, StripSuffix(sym.ctype), sym) ELSE c1
  IN [idx EXCEPT
        !.by_name = Put(@, sym.name, <<sym>> \o Get(@, sym.name, <<>>)),
        !.by_name_keys = KeysPut(@, sym.name),
        !.by_qualified_name = Put(@, sym.qualified_name, sym),
        !.by_package = Put(@, sym.package, Get(@, sym.package, <<>>) \o <<sym>>),
        !.by_file = Put(@, sym.file, Get(@, sym.file, <<>>) \o <<sym>>),
        !.by_c_name = c2]

add_symbol(idx, sym) ==
  LET c_name == iop_type_to_c(sym.qualified_name)
      c1 == Put(idx.by_c_name, c_name, sym)
      c2 == IF Truthy(sym.ctype) THEN Put(c1, StripSuffix(sym.ctype), sym) ELSE c1
  IN [idx EXCEPT
        !.by_name = Put(@, sym.name, Get(@, sym.name, <<>>) \o <<sym>>),
        !.by_name_keys = KeysPut(@, sym.name),
        !.by_qualified_name = Put(@, sym.qualified_name, sym),
        !.by_package = Put(@, sym.package, Get(@, sym.package, <<>>) \o <<sym>>),
        !.by_file = Put(@, sym.file, Get(@, sym.file, <<>>) \o <<sym>>),
        !.by_c_name = c2]

\* one iteration of the loop of remove_file
\* the body of the loop of remove_file without the removal from by_c_name
RemoveSymbol_keep_c_name(idx, sym, filepath, pkg) ==
  LET name_list == NotOfFile(Get(idx.by_name, sym.name, <<>>), filepath)
      n1 == Put(idx.by_name, sym.name, name_list)
      k1 == KeysPut(idx.by_name_keys, sym.name)
      pkg_list == NotOfFile(Get(idx.by_package, pkg, <<>>), filepath)
  IN [idx EXCEPT
        !.by_name = IF name_list = <<>> THEN Pop(n1, sym.name) ELSE n1,
        !.by_name_keys = IF name_list = <<>> THEN KeysPop(k1, sym.name) ELSE k1,
        !.by_qualified_name = Pop(@, sym.qualified_name),
        !.by_package = IF Truthy(pkg)
                         THEN (IF pkg_list = <<>> THEN Pop(@, pkg)
                                                  ELSE Put(@, pkg, pkg_list))
                         ELSE @]

RemoveSymbol(idx, sym, filepath, pkg) ==
  LET name_list == NotOfFile(Get(idx.by_name, sym.name, <<>>), filepath)
      n1 == Put(idx.by_name, sym.name, name_list)
      k1 == KeysPut(idx.by_name_keys, sym.name)
      pkg_list == NotOfFile(Get(idx.by_package, pkg, <<>>), filepath)
      c1 == Pop(idx.by_c_name, iop_type_to_c(sym.qualified_name))
  IN [idx EXCEPT
        !.by_name = IF name_list = <<>> THEN Pop(n1, sym.name) ELSE n1,
        !.by_name_keys = IF name_list = <<>> THEN KeysPop(k1, sym.name) ELSE k1,
        !.by_qualified_name = Pop(@, sym.qualified_name),
        !.by_package = IF Truthy(pkg)
                         THEN (IF pkg_list = <<>> THEN Pop(@, pkg)
                                                  ELSE Put(@, pkg, pkg_list))
                         ELSE @,
        !.by_c_name = IF Truthy(sym.ctype) THEN Pop(c1, StripSuffix(sym.ctype))
                                           ELSE c1]

RECURSIVE RemoveSymbols(_, _, _, _)
RemoveSymbols(idx, symbols, filepath, pkg) ==
  IF symbols = <<>> THEN idx
  ELSE RemoveSymbols(RemoveSymbol(idx, Head(symbols), filepath, pkg),
                     Tail(symbols), filepath, pkg)

\* remove_file dropping every symbol when the file has none
remove_file_reset(idx, filepath) ==
  LET symbols == Get(idx.by_file, filepath, <<>>)
      pkg == Get(idx.package_of_file, filepath, None)
      popped == [idx EXCEPT !.by_file = Pop(@, filepath),
                            !.package_of_file = Pop(@, filepath)]
  IN IF symbols = <<>> /\ pkg = None THEN EmptyIndex
     ELSE RemoveSymbols(popped, symbols, filepath, pkg)

remove_file(idx, filepath) ==
  LET symbols == Get(idx.by_file, filepath, <<>>)
      pkg == Get(idx.package_of_file, filepath, None)
      popped == [idx EXCEPT !.by_file = Pop(@, filepath),
                            !.package_of_file = Pop(@, filepath)]
  IN RemoveSymbols(popped, symbols, filepath, pkg)


BUILTIN_TYPES ==
  { <<"i","n","t">>, <<"u","i","n","t">>, <<"l","o","n","g">>,
    <<"u","l","o","n","g">>, <<"b","y","t","e">>, <<"u","b","y","t","e">>,
    <<"s","h","o","r","t">>, <<"u","s","h","o","r","t">>,
    <<"b","o","o","l">>, <<"d","o","u","b","l","e">>,
    <<"b","y","t","e","s">>, <<"s","t","r","i","n","g">>,
    <<"x","m","l">>, <<"v","o","i","d">> }

\* the element of list at the least position of hits, else None (no Symbol)
FirstAt(list, hits) ==
  IF hits = {} THEN NoSymbol
  ELSE list[CHOOSE i \in hits : \A j \in hits : i <= j]

\* resolve without the preference for the current package
resolve_first(idx, name, current_package) ==
  IF name \in BUILTIN_TYPES THEN NoSymbol
  ELSE IF HasDot(name)
    THEN IF name \in DOMAIN idx.by_qualified_name
           THEN idx.by_qualified_name[name]
           ELSE LET d == LastDot(name)
                    pkg == SubSeq(name, 1, d - 1)
                    type_name == SubSeq(name, d + 1, Len(name))
                    pkg_symbols == Get(idx.by_package, pkg, <<>>)
                IN FirstAt(pkg_symbols,
                           {i \in 1..Len(pkg_symbols) :
                              pkg_symbols[i].name = type_name})
    ELSE LET candidates == Get(idx.by_name, name, <<>>) IN
         IF candidates = <<>> THEN NoSymbol ELSE candidates[1]

\* resolve searching the whole workspace for the type part of a dotted name
\* that its package does not declare
resolve_global(idx, name, current_package) ==
  IF name \in BUILTIN_TYPES THEN NoSymbol
  ELSE IF HasDot(name)
    THEN IF name \in DOMAIN idx.by_qualified_name
           THEN idx.by_qualified_name[name]
           ELSE LET d == LastDot(name)
                    pkg == SubSeq(name, 1, d - 1)
                    type_name == SubSeq(name, d + 1, Len(name))
                    pkg_symbols == Get(idx.by_package, pkg, <<>>)
                    hits == {i \in 1..Len(pkg_symbols) :
                               pkg_symbols[i].name = type_name}
                    candidates == Get(idx.by_name, type_name, <<>>)
                IN IF hits # {} THEN FirstAt(pkg_symbols, hits)
                   ELSE IF candidates = <<>> THEN NoSymbol
                   ELSE candidates[1]
    ELSE LET candidates == Get(idx.by_name, name, <<>>) IN
         IF candidates = <<>> THEN NoSymbol
         ELSE IF Len(candidates) = 1 THEN candidates[1]
         ELSE IF Truthy(current_package)
                   /\ \E i \in 1..Len(candidates) :
                        candidates[i].package = current_package
           THEN FirstAt(candidates,
                        {i \in 1..Len(candidates) :
                           candidates[i].package = current_package})
           ELSE candidates[1]

\* resolve without the test for builtin types
resolve_any(idx, name, current_package) ==
  IF HasDot(name)
    THEN IF name \in DOMAIN idx.by_qualified_name
           THEN idx.by_qualified_name[name]
           ELSE LET d == LastDot(name)
                    pkg == SubSeq(name, 1, d - 1)
                    type_name == SubSeq(name, d + 1, Len(name))
                    pkg_symbols == Get(idx.by_package, pkg, <<>>)
                IN FirstAt(pkg_symbols,
                           {i \in 1..Len(pkg_symbols) :
                              pkg_symbols[i].name = type_name})
    ELSE LET candidates == Get(idx.by_name, name, <<>>) IN
         IF candidates = <<>> THEN NoSymbol
         ELSE IF Len(candidates) = 1 THEN candidates[1]
         ELSE IF Truthy(current_package)
                   /\ \E i \in 1..Len(candidates) :
                        candidates[i].package = current_package
           THEN FirstAt(candidates,
                        {i \in 1..Len(candidates) :
                           candidates[i].package = current_package})
           ELSE candidates[1]

resolve(idx, name, current_package) ==
  IF name \in BUILTIN_TYPES THEN NoSymbol
  ELSE IF HasDot(name)
    THEN IF name \in DOMAIN idx.by_qualified_name
           THEN idx.by_qualified_name[name]
           ELSE LET d == LastDot(name)
                    pkg == SubSeq(name, 1, d - 1)
                    type_name == SubSeq(name, d + 1, Len(name))
                    pkg_symbols == Get(idx.by_package, pkg, <<>>)
                IN FirstAt(pkg_symbols,
                           {i \in 1..Len(pkg_symbols) :
                              pkg_symbols[i].name = type_name})
    ELSE LET candidates == Get(idx.by_name, name, <<>>) IN
         IF candidates = <<>> THEN NoSymbol
         ELSE IF Len(candidates) = 1 THEN candidates[1]
         ELSE IF Truthy(current_package)
                   /\ \E i \in 1..Len(candidates) :
                        candidates[i].package = current_package
           THEN FirstAt(candidates,
                        {i \in 1..Len(candidates) :
                           candidates[i].package = current_package})
           ELSE candidates[1]

\* the first (sym, ev), over the enums of syms in order and the values of
\* each in order, with ev.name = value_name; None when there is none
FirstEnumValue(syms, value_name) ==
  LET Declares(sym) ==
        /\ sym.kind = "enum"
        /\ \E j \in 1..Len(sym.enum_values) :
             sym.enum_values[j].name = value_name
      hits == {i \in 1..Len(syms) : Declares(syms[i])}
  IN IF hits = {} THEN NoSymbol
     ELSE LET sym == syms[CHOOSE i \in hits : \A k \in hits : i <= k]
              at == {j \in 1..Len(sym.enum_values) :
                       sym.enum_values[j].name = value_name}
          IN [sym |-> sym,
              ev |-> sym.enum_values[CHOOSE j \in at : \A k \in at : j <= k]]

\* the lists of by_name.values(), one after the other in key order
RECURSIVE Values(_, _)
Values(d, keys) ==
  IF keys = <<>> THEN <<>> ELSE d[Head(keys)] \o Values(d, Tail(keys))

\* resolve_enum_value without the search of the current package first
resolve_enum_value_global(idx, value_name, current_package) ==
  FirstEnumValue(Values(idx.by_name, idx.by_name_keys), value_name)

resolve_enum_value(idx, value_name, current_package) ==
  LET own == IF Truthy(current_package)
               THEN FirstEnumValue(Get(idx.by_package, current_package, <<>>),
                                   value_name)
               ELSE NoSymbol
  IN IF own # NoSymbol THEN own
     ELSE FirstEnumValue(Values(idx.by_name, idx.by_name_keys), value_name)

\* resolve_c_identifier looking the identifier up as it is given
resolve_c_identifier_exact(idx, c_ident) ==
  Get(idx.by_c_name, c_ident, NoSymbol)

resolve_c_identifier(idx, c_ident) ==
  Get(idx.by_c_name, StripSuffix(c_ident), NoSymbol)

(***************************************************************************)
(* Indexer (indexer.py)                                                    *)
(*                                                                         *)
(* A parsed source is [package, children]: package is the text of the      *)
(* identifier of the first package_definition node (None when there is no  *)
(* such node or it has no identifier), children are the other top-level    *)
(* nodes in order.  A top-level node is                                    *)
(*   [type, ds_type, id, var_id, ctype, has_block, block]                  *)
(* with ds_type the text of its data_structure_type child, id the text of  *)
(* its first identifier child, var_id the text of the first identifier of  *)
(* its variable child, ctype the content of its @ctype attribute (each     *)
(* None when missing), has_block telling whether it has the block child    *)
(* that its kind is searched for (data_structure_block, enum_block,        *)
(* rpc_block, module_block) and block the children of that block.  The     *)
(* range of a symbol is the position of its declaration among the          *)
(* children; the range of a member is its position in the block.           *)
(***************************************************************************)
\* str.lstrip('= ')
RECURSIVE LStripEq(_)
LStripEq(s) ==
  IF s # <<>> /\ Head(s) \in {"=", " "} THEN LStripEq(Tail(s)) ELSE s

\* str.strip(), the whitespace being blanks
RECURSIVE Strip(_)
Strip(s) ==
  IF s # <<>> /\ Head(s) = " " THEN Strip(Tail(s))
  ELSE IF s # <<>> /\ s[Len(s)] = " " THEN Strip(SubSeq(s, 1, Len(s) - 1))
  ELSE s

\* `_node_text(id_node) or ''`
TextOrEmpty(text) == IF text = None THEN <<>> ELSE text

\* _extract_fields recording the type of every field as a reference
_extract_fields_all(block) ==
  LET out == [i \in 1..Len(block) |->
                LET child == block[i] IN
                IF child.type = "field" /\ child.has_var
                  THEN [name |-> TextOrEmpty(child.id),
                        type_ref |-> child.type_text,
                        range |-> i]
                  ELSE NoSymbol]
  IN SelectSeq(out, LAMBDA x : x # NoSymbol)

\* a child of the block is [type, has_var, type_text, id]: whether the field
\* has a variable child, the text of the type child of the variable and the
\* text of its first identifier child
_extract_fields(block) ==
  LET out == [i \in 1..Len(block) |->
                LET child == block[i] IN
                IF child.type = "field" /\ child.has_var
                  THEN [name |-> TextOrEmpty(child.id),
                        type_ref |-> IF Truthy(child.type_text)
                                          /\ child.type_text \notin BUILTIN_TYPES
                                       THEN child.type_text ELSE None,
                        range |-> i]
                  ELSE NoSymbol]
  IN SelectSeq(out, LAMBDA x : x # NoSymbol)

\* a child of the block is [type, id, default]: the text of the first
\* identifier child of the enum_field and of its default_value child
_extract_enum_values(block) ==
  LET out == [i \in 1..Len(block) |->
                LET child == block[i] IN
                IF child.type = "enum_field"
                  THEN [name |-> TextOrEmpty(child.id),
                        value |-> IF child.default # None
                                    THEN Strip(LStripEq(child.default))
                                    ELSE None,
                        range |-> i]
                  ELSE NoSymbol]
  IN SelectSeq(out, LAMBDA x : x # NoSymbol)

\* an rpc_in, rpc_out or rpc_throw clause is [present, argument_list, id]
_extract_rpc_type_ref(rpc_clause) ==
  IF ~rpc_clause.present THEN None
  ELSE IF rpc_clause.argument_list THEN None
  ELSE IF rpc_clause.id # None /\ Truthy(rpc_clause.id)
            /\ rpc_clause.id \notin BUILTIN_TYPES
            /\ rpc_clause.id \notin {<<"n","u","l","l">>, <<"v","o","i","d">>}
    THEN rpc_clause.id
  ELSE None

\* a child of the block is [type, id, rpc_in, rpc_out, rpc_throw]
_extract_rpcs(block) ==
  LET out == [i \in 1..Len(block) |->
                LET child == block[i] IN
                IF child.type = "rpc"
                  THEN [name |-> TextOrEmpty(child.id),
                        in_type |-> _extract_rpc_type_ref(child.rpc_in),
                        out_type |-> _extract_rpc_type_ref(child.rpc_out),
                        throw_type |-> _extract_rpc_type_ref(child.rpc_throw),
                        range |-> i]
                  ELSE NoSymbol]
  IN SelectSeq(out, LAMBDA x : x # NoSymbol)

\* a child of the block is [type, ids]: the texts of the identifier children
\* of the module_field
_extract_module_fields(block) ==
  LET out == [i \in 1..Len(block) |->
                LET child == block[i] IN
                IF child.type = "module_field" /\ Len(child.ids) >= 2
                  THEN [name |-> child.ids[2],
                        type_ref |-> child.ids[1],
                        range |-> i]
                  ELSE NoSymbol]
  IN SelectSeq(out, LAMBDA x : x # NoSymbol)

_NODE_TYPE_TO_KIND ==
  [class_definition |-> "class", enum_definition |-> "enum",
   interface_definition |-> "interface", module_definition |-> "module",
   typedef_definition |-> "typedef", snmp_object_definition |-> "snmpObj",
   snmp_table_definition |-> "snmpTbl",
   snmp_interface_definition |-> "snmpIface"]

_extract_symbol(node, pos, filepath, package) ==
  LET kind == IF node.type = "data_structure_definition"
                THEN (IF node.ds_type = <<"s","t","r","u","c","t">>
                        THEN "struct" ELSE "union")
                ELSE _NODE_TYPE_TO_KIND[node.type]
      name == IF node.type = "typedef_definition" THEN node.var_id
                                                  ELSE node.id
  IN IF node.type \notin DOMAIN _NODE_TYPE_TO_KIND
          /\ node.type # "data_structure_definition" THEN NoSymbol
     ELSE IF node.type = "data_structure_definition" /\ node.ds_type = None
       THEN NoSymbol
     ELSE IF name = None THEN NoSymbol
     ELSE [name |-> name,
           qualified_name |-> package \o <<".">> \o name,
           kind |-> kind,
           file |-> filepath,
           range |-> pos,
           package |-> package,
           ctype |-> node.ctype,
           fields |-> IF kind \in {"struct", "union", "snmpObj", "snmpTbl",
                                   "class"} /\ node.has_block
                        THEN _extract_fields(node.block)
                      ELSE IF kind = "module" /\ node.has_block
                        THEN _extract_module_fields(node.block)
                      ELSE <<>>,
           enum_values |-> IF kind = "enum" /\ node.has_block
                             THEN _extract_enum_values(node.block) ELSE <<>>,
           rpcs |-> IF kind = "interface" /\ node.has_block
                      THEN _extract_rpcs(node.block) ELSE <<>>]

\* the loop of _index_source given up at the first child without a symbol
RECURSIVE AddChildren_abort(_, _, _, _, _)
AddChildren_abort(idx, children, i, filepath, package) ==
  IF i > Len(children) THEN idx
  ELSE LET sym == _extract_symbol(children[i], i, filepath, package) IN
       IF sym = NoSymbol THEN idx
       ELSE AddChildren_abort(add_symbol(idx, sym), children, i + 1,
                              filepath, package)

\* the loop `for child in root.children` of _index_source, from child i on
RECURSIVE AddChildren(_, _, _, _, _)
AddChildren(idx, children, i, filepath, package) ==
  IF i > Len(children) THEN idx
  ELSE LET sym == _extract_symbol(children[i], i, filepath, package) IN
       AddChildren(IF sym # NoSymbol THEN add_symbol(idx, sym) ELSE idx,
                   children, i + 1, filepath, package)

_index_source(idx, filepath, source) ==
  IF source.package = None THEN idx
  ELSE AddChildren(
         [idx EXCEPT !.package_of_file = Put(@, filepath, source.package)],
         source.children, 1, filepath, source.package)

\* index_source without the removal of the file's old symbols
index_source_keep(idx, filepath, source) ==
  _index_source(idx, filepath, source)

index_source(idx, filepath, source) ==
  _index_source(remove_file(idx, filepath), filepath, source)

\* the result of open(filepath).read(): a source, or OSError
OSError == [error |-> "OSError"]

index_file(idx, filepath, read) ==
  IF read = OSError THEN remove_file(idx, filepath)
  ELSE _index_source(remove_file(idx, filepath), filepath, read)


(***************************************************************************)
(* Inputs.                                                                 *)
(***************************************************************************)
SeqsUpTo(S, n) == UNION {[1..k -> S] : k \in 0..n}

\* `struct <name> {};`
StructNode(name) ==
  [type |-> "data_structure_definition",
   ds_type |-> <<"s","t","r","u","c","t">>,
   id |-> name, var_id |-> None, ctype |-> None,
   has_block |-> TRUE, block |-> <<>>]

Nodes == {StructNode(n) : n \in TypeNames}

Sources ==
  [package : Packages \cup {None}, children : SeqsUpTo(Nodes, MaxDecls)]

\* the contents a file on disk, or a document of the editor, is drawn from
ShortSources == {c \in Sources : Len(c.children) <= 1}

NoSource == [none |-> TRUE]

\* the symbols _index_source hands to add_symbol, in order
Declared(filepath, source) ==
  IF source = OSError \/ source.package = None THEN <<>>
  ELSE LET syms == [i \in 1..Len(source.children) |->
                      _extract_symbol(source.children[i], i, filepath,
                                      source.package)]
       IN SelectSeq(syms, LAMBDA x : x # NoSymbol)

(***************************************************************************)
(* The index under the operations of Indexer and SymbolIndex.              *)
(***************************************************************************)
Init ==
  /\ index = EmptyIndex
  /\ added = <<>>
  /\ last = [op |-> "init", file |-> "", source |-> NoSource]
  /\ pc = "idle"
  /\ job = [walk |-> <<>>, before |-> EmptyIndex, after |-> EmptyIndex]
  /\ observed = NoSymbol

\* the record of a call
Called(op, filepath, source) ==
  [op |-> op, file |-> filepath, source |-> source]

\* Indexer.index_source(filepath, source)
IndexSource(filepath, source) ==
  /\ index' = index_source(index, filepath, source)
  /\ added' = NotOfFile(added, filepath) \o Declared(filepath, source)
  /\ last' = Called("index_source", filepath, source)
  /\ UNCHANGED <<pc, job, observed>>

\* Indexer.index_file(filepath), the file's content being read
IndexFile(filepath, read) ==
  /\ index' = index_file(index, filepath, read)
  /\ added' = NotOfFile(added, filepath) \o Declared(filepath, read)
  /\ last' = Called("index_file", filepath, read)
  /\ UNCHANGED <<pc, job, observed>>

\* SymbolIndex.remove_file(filepath)
RemoveFile(filepath) ==
  /\ index' = remove_file(index, filepath)
  /\ added' = NotOfFile(added, filepath)
  /\ last' = Called("remove_file", filepath, NoSource)
  /\ UNCHANGED <<pc, job, observed>>

Next ==
  \/ \E f \in Files, c \in Sources : IndexSource(f, c)
  \/ \E f \in Files, r \in ShortSources \cup {OSError} : IndexFile(f, r)
  \/ \E f \in Files : RemoveFile(f)

Spec == Init /\ [][Next]_vars

(***************************************************************************)
(* SymbolIndex on its own: add_symbol and remove_file called directly.     *)
(***************************************************************************)
\* Symbol(name=n, qualified_name=f'{p}.{n}', kind=STRUCT, file=f, package=p,
\* ctype=ctype)
SymbolOf(n, p, f, ctype) ==
  [name |-> n, qualified_name |-> p \o <<".">> \o n, kind |-> "struct",
   file |-> f, range |-> 1, package |-> p, ctype |-> ctype,
   fields |-> <<>>, enum_values |-> <<>>, rpcs |-> <<>>]

\* the @ctype overrides: two with the base x, one whose base keeps a suffix,
\* one whose base is the name derived from p.A
CTypes ==
  { <<"x","_","_","t">>, <<"x","_","_","s","p">>,
    <<"x","_","_","t","_","_","t">>, <<"p","_","_","a","_","_","s">> }

\* the Symbol records handed to add_symbol: plain ones, ones named as a
\* builtin type, and ones with a @ctype override
Symbols ==
  {SymbolOf(n, p, f, None) : n \in TypeNames, p \in Packages, f \in Files}
    \cup {SymbolOf(<<"i","n","t">>, p, "/a.iop", None) : p \in Packages}
    \cup {SymbolOf(<<"A">>, <<"p">>, "/a.iop", c) : c \in CTypes}
    \cup {SymbolOf(<<"B">>, <<"p">>, "/b.iop", <<"x","_","_","t">>)}

\* number of list entries of the dict d over keys
RECURSIVE Entries(_, _)
Entries(d, keys) ==
  IF keys = {} THEN 0
  ELSE LET k == CHOOSE x \in keys : TRUE
       IN Len(d[k]) + Entries(d, keys \ {k})

\* SymbolIndex.add_symbol(sym)
AddSymbol(sym) ==
  /\ Entries(index.by_package, DOMAIN index.by_package) < MaxHeld
  /\ index' = add_symbol(index, sym)
  /\ added' = Append(added, sym)
  /\ last' = Called("add_symbol", sym.file, NoSource)
  /\ UNCHANGED <<pc, job, observed>>

NextIndex ==
  \/ \E sym \in Symbols : AddSymbol(sym)
  \/ \E f \in Files \cup {NeverIndexed} : RemoveFile(f)

SpecIndex == Init /\ [][NextIndex]_vars

(***************************************************************************)
(* The index under index_source and remove_file of files that declare      *)
(* enums.                                                                  *)
(***************************************************************************)
ValueNames == {<<"X">>, <<"Y">>}

\* `<name>,` in an enum block
EnumField(name) == [type |-> "enum_field", id |-> name, default |-> None]

\* `enum <name> { <values> };`
EnumNode(name, values) ==
  [type |-> "enum_definition", ds_type |-> None, id |-> name,
   var_id |-> None, ctype |-> None, has_block |-> TRUE,
   block |-> [i \in 1..Len(values) |-> EnumField(values[i])]]

EnumNodes ==
  { EnumNode(<<"A">>, << <<"X">> >>), EnumNode(<<"A">>, << <<"Y">> >>),
    EnumNode(<<"B">>, << <<"X">>, <<"Y">> >>), StructNode(<<"A">>) }

EnumSources ==
  [package : Packages, children : SeqsUpTo(EnumNodes, MaxEnums)]

NextEnum ==
  \/ \E f \in Files, c \in EnumSources : IndexSource(f, c)
  \/ \E f \in Files : RemoveFile(f)

SpecEnum == Init /\ [][NextEnum]_vars

(***************************************************************************)
(* The extraction of the declarations of one source: a source drawn from   *)
(* DeclSources is indexed as /a.iop, into an empty index or into one that  *)
(* holds another file.                                                     *)
(***************************************************************************)
\* a top-level node with the block its kind is searched for
Node(type, ds_type, id, var_id, block) ==
  [type |-> type, ds_type |-> ds_type, id |-> id, var_id |-> var_id,
   ctype |-> None, has_block |-> TRUE, block |-> block]

\* `<type_text> <id>;` in a data structure block
Field(type_text, id) ==
  [type |-> "field", has_var |-> TRUE, type_text |-> type_text, id |-> id]

\* a child of a block that is no member: a comment
Comment == [type |-> "comment"]

\* `<id> in <in_id> out void;` in an rpc block
Rpc(id, in_id) ==
  [type |-> "rpc", id |-> id,
   rpc_in |-> [present |-> TRUE, argument_list |-> FALSE, id |-> in_id],
   rpc_out |-> [present |-> TRUE, argument_list |-> FALSE,
                id |-> <<"v","o","i","d">>],
   rpc_throw |-> [present |-> FALSE, argument_list |-> FALSE, id |-> None]]

\* `<iface> <name>;` in a module block
ModuleField(iface, name) == [type |-> "module_field", ids |-> <<iface, name>>]

\* a block of MaxMembers members m after a comment
FullBlock(m) == <<Comment>> \o [i \in 1..MaxMembers |-> m]

StructText == <<"s","t","r","u","c","t">>

UnionText == <<"u","n","i","o","n">>

\* one or two well-formed declarations of every kind
KindNodes ==
  { Node("data_structure_definition", StructText, <<"A">>, None, <<>>),
    Node("data_structure_definition", StructText, <<"A">>, None,
         FullBlock(Field(<<"i","n","t">>, <<"a">>))),
    Node("data_structure_definition", UnionText, <<"A">>, None,
         FullBlock(Field(<<"A">>, <<"b">>))),
    Node("class_definition", None, <<"C">>, None,
         FullBlock(Field(<<"A">>, <<"b">>))),
    [Node("class_definition", None, <<"C">>, None, <<>>)
       EXCEPT !.has_block = FALSE],
    Node("enum_definition", None, <<"E">>, None,
         FullBlock([type |-> "enum_field", id |-> <<"X">>,
                    default |-> <<"="," ","1">>])),
    Node("interface_definition", None, <<"I">>, None,
         FullBlock(Rpc(<<"f">>, <<"A">>))),
    Node("module_definition", None, <<"M">>, None,
         FullBlock(ModuleField(<<"I">>, <<"i">>))),
    Node("typedef_definition", None, None, <<"T">>, <<>>),
    Node("snmp_object_definition", None, <<"O">>, None,
         FullBlock(Field(<<"i","n","t">>, <<"a">>))),
    Node("snmp_table_definition", None, <<"Q">>, None,
         FullBlock(Field(<<"i","n","t">>, <<"a">>))),
    Node("snmp_interface_definition", None, <<"R">>, None, <<>>) }

\* nodes that are no declaration, or lack the name or the type keyword
MalformedNodes ==
  { Node("import_definition", None, <<"A">>, None, <<>>),
    Node("data_structure_definition", StructText, None, None, <<>>),
    Node("data_structure_definition", None, <<"A">>, None, <<>>),
    Node("typedef_definition", None, <<"T">>, None, <<>>) }

\* the types of the fields: every builtin type and two declared types
FieldTypes == BUILTIN_TYPES \cup {<<"A">>, <<"p",".","q",".","A">>}

\* the children of the block of a struct: fields of every type, a field
\* without a variable child, a comment
FieldMembers ==
  {Field(t, <<"a">>) : t \in FieldTypes}
    \cup {[Field(None, None) EXCEPT !.has_var = FALSE], Comment}

FieldNodes ==
  {Node("data_structure_definition", StructText, <<"A">>, None, block) :
     block \in SeqsUpTo(FieldMembers, MaxMembers)}

DeclSources ==
  [package : {<<"p">>, None},
   children : SeqsUpTo(KindNodes \cup MalformedNodes, MaxDecls)]
    \cup [package : {<<"p">>}, children : {<<n>> : n \in FieldNodes}]

\* the content of the other file
OtherSource == [package |-> <<"p">>, children |-> <<StructNode(<<"A">>)>>]

InitExtract ==
  /\ \E c \in DeclSources, other \in BOOLEAN :
       /\ index = IF other
                    THEN index_source(EmptyIndex, "/b.iop", OtherSource)
                    ELSE EmptyIndex
       /\ added = IF other THEN Declared("/b.iop", OtherSource) ELSE <<>>
       /\ job = [walk |-> <<[file |-> "/a.iop", read |-> c]>>,
                 before |-> EmptyIndex, after |-> EmptyIndex]
  /\ last = [op |-> "init", file |-> "", source |-> NoSource]
  /\ pc = "idle"
  /\ observed = NoSymbol

\* Indexer.index_source of the source that was drawn
ExtractSource ==
  /\ pc = "idle"
  /\ job.walk # <<>>
  /\ LET f == Head(job.walk).file
         c == Head(job.walk).read
     IN /\ index' = index_source(index, f, c)
        /\ added' = NotOfFile(added, f) \o Declared(f, c)
        /\ last' = Called("index_source", f, c)
  /\ job' = [job EXCEPT !.walk = Tail(@)]
  /\ UNCHANGED <<pc, observed>>

NextExtract == ExtractSource

SpecExtract == InitExtract /\ [][NextExtract]_vars

(***************************************************************************)
(* The name mangler (c_mapping.py) applied to an identifier that was       *)
(* drawn: job.walk holds the identifiers still to convert, observed the    *)
(* text the last conversion returned.                                      *)
(***************************************************************************)
\* identifiers and the C names test_c_mapping.py expects for them
Examples ==
  { <<<<"H","T","T","P","C","o","d","e">>,
      <<"h","t","t","p","_","c","o","d","e">>>>,
    <<<<"M","y","S","t","r","u","c","t","A">>,
      <<"m","y","_","s","t","r","u","c","t","_","a">>>>,
    <<<<"M","y","S","t","r","u","c","t","2">>,
      <<"m","y","_","s","t","r","u","c","t","2">>>>,
    <<<<"V","2","R","e","q","u","e","s","t">>,
      <<"v","2","_","r","e","q","u","e","s","t">>>>,
    <<<<"U","R","L">>,
      <<"u","r","l">>>> }

\* the identifiers converted: every text of up to MaxNameLen characters
\* over two uppercase letters, a lowercase letter and a digit, and the
\* identifiers of Examples
Identifiers ==
  (SeqsUpTo({"A", "B", "a", "2"}, MaxNameLen) \ {<<>>})
    \cup {e[1] : e \in Examples}

\* qualified names and the C names test_c_mapping.py expects for them
QualifiedExamples ==
  { <<<<"t","s","t","i","o","p",".","M","y","S","t","r","u","c","t","A">>,
      <<"t","s","t","i","o","p","_","_","m","y","_","s","t","r","u","c","t","_","a">>>>,
    <<<<"t","e","s","t",".","d","s","o",".","C","l","a","s","s","D","s","o">>,
      <<"t","e","s","t","_","_","d","s","o","_","_","c","l","a","s","s","_","d","s","o">>>> }

\* the qualified names converted: a type part of up to MaxTypeLen
\* characters in a package of one or two segments, of which one has an
\* uppercase letter and one a digit, and the names of QualifiedExamples
QualifiedNames ==
  {pkg \o <<".">> \o t :
     pkg \in {<<"p">>, <<"p",".","q">>, <<"P","k",".","t","2">>},
     t \in SeqsUpTo({"A", "B", "a", "2"}, MaxTypeLen) \ {<<>>}}
    \cup {e[1] : e \in QualifiedExamples}

InitMangle ==
  /\ index = EmptyIndex
  /\ added = <<>>
  /\ last = [op |-> "init", file |-> "", source |-> NoSource]
  /\ pc = "idle"
  /\ \E name \in Identifiers \cup QualifiedNames :
       job = [walk |-> <<name>>, before |-> EmptyIndex, after |-> EmptyIndex]
  /\ observed = NoSymbol

\* camelcase_to_c(name)
CamelcaseToC ==
  /\ pc = "idle"
  /\ job.walk # <<>>
  /\ observed' = [text |-> camelcase_to_c(Head(job.walk))]
  /\ last' = Called("camelcase_to_c", "", Head(job.walk))
  /\ job' = [job EXCEPT !.walk = Tail(@)]
  /\ UNCHANGED <<index, added, pc>>

\* iop_type_to_c(qualified_name)
IopTypeToC ==
  /\ pc = "idle"
  /\ job.walk # <<>>
  /\ observed' = [text |-> iop_type_to_c(Head(job.walk))]
  /\ last' = Called("iop_type_to_c", "", Head(job.walk))
  /\ job' = [job EXCEPT !.walk = Tail(@)]
  /\ UNCHANGED <<index, added, pc>>

NextMangle ==
  \/ CamelcaseToC
  \/ IopTypeToC

SpecMangle == InitMangle /\ [][NextMangle]_vars

(***************************************************************************)
(* The hover handler (server.py) on a document that was indexed.           *)
(*                                                                         *)
(* The node under the cursor is                                            *)
(*   [type, text, id_text, parent, grandparent, type_text, default_text,   *)
(*    first_identifier]                                                    *)
(* with id_text the text of its first identifier child, parent and         *)
(* grandparent the types of node.parent and node.parent.parent ("" when    *)
(* there is none), type_text and default_text the texts of the type child  *)
(* and of the default_value child of the parent, first_identifier whether  *)
(* the node is the first identifier child of its parent (each text None    *)
(* when the node is missing).  The path of the document stands for its     *)
(* uri.  The text of a hover is the record of what it shows; the doc, the  *)
(* parent class, the source type of a typedef and the specifier of a field *)
(* are not part of the symbols here and are not shown.                     *)
(***************************************************************************)
CursorNode(type, text, parent, grandparent) ==
  [type |-> type, text |-> text, id_text |-> None, parent |-> parent,
   grandparent |-> grandparent, type_text |-> None, default_text |-> None,
   first_identifier |-> TRUE]

\* _is_type_reference_context without the identifier of a type node
_is_type_reference_context_bare(node) ==
  IF node.type # "identifier" /\ node.type # "type" THEN FALSE
  ELSE IF node.parent = "" THEN FALSE
  ELSE \/ node.type = "type" /\ node.parent = "variable"
       \/ node.parent = "class_inheritance"
       \/ node.parent \in {"rpc_in", "rpc_out", "rpc_throw"}
       \/ node.parent = "module_field" /\ node.first_identifier

_is_type_reference_context(node) ==
  IF node.type # "identifier" /\ node.type # "type" THEN FALSE
  ELSE IF node.parent = "" THEN FALSE
  ELSE \/ node.type = "identifier" /\ node.parent = "type"
       \/ node.type = "type" /\ node.parent = "variable"
       \/ node.parent = "class_inheritance"
       \/ node.parent \in {"rpc_in", "rpc_out", "rpc_throw"}
       \/ node.parent = "module_field" /\ node.first_identifier

\* the context of the node that _node_at_position found
_get_node_context_at_position(node) ==
  IF _is_type_reference_context(node) THEN "type_ref"
  ELSE IF node.type = "identifier" /\ node.parent # ""
            /\ (node.parent = "value" \/ node.grandparent = "default_value")
    THEN "enum_value"
  ELSE IF node.type = "identifier" /\ node.parent = "variable"
            /\ node.type_text # None
    THEN "field_name"
  ELSE IF node.type = "identifier" /\ node.parent = "enum_field"
    THEN "enum_value_def"
  ELSE IF node.type = "identifier"
            /\ node.parent \in {"data_structure_definition",
                                "class_definition", "enum_definition",
                                "interface_definition", "module_definition",
                                "snmp_object_definition",
                                "snmp_table_definition",
                                "snmp_interface_definition"}
    THEN "type_def"
  ELSE IF node.type = "identifier" /\ node.parent = "rpc" THEN "rpc_name"
  ELSE IF node.type = "type" THEN "type_ref"
  ELSE "unknown"

\* the handler returning None
NoHover == [nothing |-> TRUE]

\* `x if x else ''`
OrEmpty(text) == IF Truthy(text) THEN text ELSE <<>>

_format_symbol_hover(sym) ==
  [kind |-> sym.kind, name |-> sym.name, package |-> sym.package,
   listing |->
     IF sym.enum_values # <<>>
       THEN [i \in 1..Len(sym.enum_values) |->
               [name |-> sym.enum_values[i].name,
                value |-> OrEmpty(sym.enum_values[i].value)]]
     ELSE IF sym.fields # <<>> /\ Len(sym.fields) <= 10
       THEN [i \in 1..Len(sym.fields) |->
               [type_str |-> IF Truthy(sym.fields[i].type_ref)
                               THEN sym.fields[i].type_ref
                               ELSE <<"b","u","i","l","t","i","n">>,
                name |-> sym.fields[i].name]]
     ELSE <<>>]

_format_enum_value_hover(enum_sym, ev) ==
  [value_name |-> ev.name, value |-> OrEmpty(ev.value),
   enum |-> enum_sym.qualified_name]

_format_field_hover_from_node(node) ==
  IF node.parent # "variable" THEN NoHover
  ELSE [field_name |-> node.text,
        type_text |-> IF node.type_text # None THEN node.type_text
                                               ELSE <<"?">>,
        default |-> IF node.default_text # None THEN node.default_text
                                                ELSE <<>>]

_format_enum_value_def_hover(idx, node, current_package) ==
  LET result == resolve_enum_value(idx, node.text, current_package)
  IN IF result # NoSymbol THEN _format_enum_value_hover(result.sym, result.ev)
     ELSE NoHover

\* hover with the cursor on node of the document at path; the result is the
\* context found and the hover returned
hover(idx, path, node) ==
  LET context == _get_node_context_at_position(node)
      text == IF node.type = "type" /\ node.id_text # None
                THEN node.id_text ELSE node.text
      current_package == Get(idx.package_of_file, path, None)
      sym == resolve(idx, text, current_package)
      result == resolve_enum_value(idx, text, current_package)
      qname == IF Truthy(current_package)
                 THEN current_package \o <<".">> \o text ELSE text
      def == Get(idx.by_qualified_name, qname, NoSymbol)
  IN [context |-> context,
      hover |->
        IF context = "type_ref"
          THEN IF text \in BUILTIN_TYPES THEN [builtin |-> text]
               ELSE IF sym # NoSymbol THEN _format_symbol_hover(sym)
               ELSE NoHover
        ELSE IF context = "enum_value"
          THEN IF result # NoSymbol
                 THEN _format_enum_value_hover(result.sym, result.ev)
                 ELSE NoHover
        ELSE IF context = "field_name"
          THEN _format_field_hover_from_node(node)
        ELSE IF context = "enum_value_def"
          THEN _format_enum_value_def_hover(idx, node, current_package)
        ELSE IF context = "type_def"
          THEN IF Truthy(text) /\ def # NoSymbol
                 THEN _format_symbol_hover(def) ELSE NoHover
        ELSE NoHover]

\* `typedef <type_text> <name>;`
TypedefNode(type_text, name) ==
  [type |-> "typedef_definition", ds_type |-> None, id |-> None,
   var_id |-> name, ctype |-> None, has_block |-> FALSE, block |-> <<>>,
   var_type |-> type_text]

\* `<type_text> <id> = <default_id>;` in a data structure block
FieldWithDefault(type_text, id, default_id) ==
  [type |-> "field", has_var |-> TRUE, type_text |-> type_text, id |-> id,
   default_id |-> default_id]

\* the declarations of the documents: every kind, enums that declare the
\* same value names, a typedef with its source type, a field with a default
HoverNodes ==
  {n \in KindNodes : n.type # "typedef_definition"} \cup EnumNodes
    \cup { TypedefNode(<<"A">>, <<"T">>),
           Node("data_structure_definition", StructText, <<"S">>, None,
                <<FieldWithDefault(<<"E">>, <<"e">>, <<"X">>)>>) }

HoverSources ==
  [package : {<<"p">>},
   children : SeqsUpTo(HoverNodes, MaxDecls) \ {<<>>}]

\* the content of the other file: an enum of the package of the document, or
\* of another package
OtherEnums ==
  [package : Packages,
   children : {<<EnumNode(<<"B">>, << <<"X">>, <<"Y">> >>)>>}]

\* the places of a member of a block the cursor is put on
MemberTokens(m) ==
  IF m.type = "field" /\ m.has_var
    THEN {"name", "type"}
           \cup (IF m.type_text \notin BUILTIN_TYPES THEN {"type_id"} ELSE {})
           \cup (IF "default_id" \in DOMAIN m THEN {"default"} ELSE {})
  ELSE IF m.type = "enum_field" THEN {"name"}
  ELSE IF m.type = "rpc"
    THEN {"name"}
           \cup (IF m.rpc_in.present /\ ~m.rpc_in.argument_list
                   THEN {"in"} ELSE {})
  ELSE IF m.type = "module_field" THEN {"first", "second"}
  ELSE {"comment"}

\* the text of the identifier a declaration is named by
NameText(n) == IF n.type = "typedef_definition" THEN n.var_id ELSE n.id

\* the places of the document the cursor is put on: [decl, member, token],
\* member 0 being the declaration itself
Cursors(source) ==
  {cur \in [decl : 1..Len(source.children), member : 0..(MaxMembers + 1),
            token : {"keyword", "name", "type", "type_id", "default", "in",
                     "first", "second", "comment"}] :
     LET n == source.children[cur.decl] IN
     IF cur.member = 0
       THEN \/ cur.token = "keyword"
            \/ cur.token = "name" /\ NameText(n) # None
            \/ cur.token = "type" /\ "var_type" \in DOMAIN n
       ELSE /\ cur.member <= Len(n.block)
            /\ cur.token \in MemberTokens(n.block[cur.member])}

\* the block node of a declaration
BlockType(n) ==
  IF n.type = "enum_definition" THEN "enum_block"
  ELSE IF n.type = "interface_definition" THEN "rpc_block"
  ELSE IF n.type = "module_definition" THEN "module_block"
  ELSE "data_structure_block"

\* the named node at the cursor
NodeAt(source, cur) ==
  LET n == source.children[cur.decl]
      m == n.block[cur.member]
      var_type == IF "var_type" \in DOMAIN n THEN n.var_type ELSE None
  IN IF cur.member = 0
       THEN IF cur.token = "keyword"
              THEN CursorNode(n.type, <<>>, "source_file", "")
            ELSE IF cur.token = "type"
              THEN [CursorNode("type", var_type, "variable",
                               "typedef_definition")
                      EXCEPT !.type_text = var_type,
                             !.id_text = IF var_type \in BUILTIN_TYPES
                                           THEN None ELSE var_type]
            ELSE IF n.type = "typedef_definition"
              THEN [CursorNode("identifier", n.var_id, "variable",
                               "typedef_definition")
                      EXCEPT !.type_text = var_type]
            ELSE CursorNode("identifier", n.id, n.type, "source_file")
     ELSE IF m.type = "field"
       THEN LET default_text == IF "default_id" \in DOMAIN m
                                  THEN <<"=", " ">> \o m.default_id ELSE None
            IN IF cur.token = "name"
                 THEN [CursorNode("identifier", m.id, "variable", "field")
                         EXCEPT !.type_text = m.type_text,
                                !.default_text = default_text]
               ELSE IF cur.token = "type"
                 THEN [CursorNode("type", m.type_text, "variable", "field")
                         EXCEPT !.type_text = m.type_text,
                                !.default_text = default_text,
                                !.id_text = IF m.type_text \in BUILTIN_TYPES
                                              THEN None ELSE m.type_text]
               ELSE IF cur.token = "type_id"
                 THEN CursorNode("identifier", m.type_text, "type",
                                 "variable")
               ELSE CursorNode("identifier", m.default_id, "value",
                               "default_value")
     ELSE IF m.type = "enum_field"
       THEN CursorNode("identifier", m.id, "enum_field", "enum_block")
     ELSE IF m.type = "rpc"
       THEN IF cur.token = "name"
              THEN CursorNode("identifier", m.id, "rpc", "rpc_block")
              ELSE CursorNode("identifier", m.rpc_in.id, "rpc_in", "rpc")
     ELSE IF m.type = "module_field"
       THEN [CursorNode("identifier",
                        IF cur.token = "first" THEN m.ids[1] ELSE m.ids[2],
                        "module_field", "module_block")
               EXCEPT !.first_identifier = (cur.token = "first")]
     ELSE CursorNode("comment", <<>>, BlockType(n), n.type)

\* the document /a.iop was indexed, after the other file if there is one
InitHover ==
  /\ \E c \in HoverSources, other \in OtherEnums \cup {NoSource} :
       /\ index = index_source(
                    IF other # NoSource
                      THEN index_source(EmptyIndex, "/b.iop", other)
                      ELSE EmptyIndex,
                    "/a.iop", c)
       /\ added = (IF other # NoSource THEN Declared("/b.iop", other)
                                       ELSE <<>>)
                    \o Declared("/a.iop", c)
       /\ job = [walk |-> <<>>, before |-> EmptyIndex, after |-> EmptyIndex,
                 doc |-> c]
       /\ last = Called("index_source", "/a.iop", c)
  /\ pc = "idle"
  /\ observed = NoSymbol

\* hover(params) with the cursor at cur of the document
Hover(cur) ==
  /\ pc = "idle"
  /\ cur \in Cursors(job.doc)
  /\ observed' = hover(index, "/a.iop", NodeAt(job.doc, cur))
  /\ last' = Called("hover", "/a.iop", cur)
  /\ UNCHANGED <<index, added, pc, job>>

NextHover ==
  \E cur \in [decl : 1..MaxDecls, member : 0..(MaxMembers + 1),
              token : {"keyword", "name", "type", "type_id", "default", "in",
                       "first", "second", "comment"}] : Hover(cur)

SpecHover == InitHover /\ [][NextHover]_vars

(***************************************************************************)
(* Doc comments (doc_comments.py).                                         *)
(*                                                                         *)
(* The children of the parent of a node are [type, named, text, row,       *)
(* end_row] in source order: comments, attributes, unnamed tokens and the  *)
(* declarations or members themselves, with the rows of start_point and    *)
(* end_point.  A node is given by its position among them.                 *)
(***************************************************************************)
\* str.startswith
StartsWith(s, prefix) ==
  Len(s) >= Len(prefix) /\ SubSeq(s, 1, Len(prefix)) = prefix

\* text[n:]
DropFirst(s, n) == IF Len(s) <= n THEN <<>> ELSE SubSeq(s, n + 1, Len(s))

\* `if text.endswith('*/'): text = text[:-2]`
DropEnd(s) ==
  IF EndsWith(s, <<"*", "/">>) THEN SubSeq(s, 1, Len(s) - 2) ELSE s

\* str.strip(), the whitespace being blanks and newlines
RECURSIVE StripWs(_)
StripWs(s) ==
  IF s # <<>> /\ Head(s) \in {" ", "\n"} THEN StripWs(Tail(s))
  ELSE IF s # <<>> /\ s[Len(s)] \in {" ", "\n"}
    THEN StripWs(SubSeq(s, 1, Len(s) - 1))
  ELSE s

\* text.split('\n')
RECURSIVE SplitLines(_)
SplitLines(s) ==
  IF \A i \in 1..Len(s) : s[i] # "\n" THEN <<s>>
  ELSE LET n == CHOOSE i \in 1..Len(s) :
                  s[i] = "\n" /\ \A j \in 1..(i - 1) : s[j] # "\n"
       IN <<SubSeq(s, 1, n - 1)>> \o SplitLines(DropFirst(s, n))

\* the body of the loop over the lines
CleanLine(line) ==
  LET stripped == StripWs(line) IN
  IF StartsWith(stripped, <<"*", " ">>) THEN DropFirst(stripped, 2)
  ELSE IF StartsWith(stripped, <<"*">>) THEN DropFirst(stripped, 1)
  ELSE stripped

\* '\n'.join(lines)
RECURSIVE JoinLines(_)
JoinLines(lines) ==
  IF Len(lines) = 1 THEN lines[1]
  ELSE lines[1] \o <<"\n">> \o JoinLines(Tail(lines))

_clean_doc_comment(text) ==
  LET lines == SplitLines(DropEnd(DropFirst(text, 3)))
  IN StripWs(JoinLines([i \in 1..Len(lines) |-> CleanLine(lines[i])]))

_clean_trailing_doc_comment(text) == StripWs(DropEnd(DropFirst(text, 4)))

\* node.prev_named_sibling of the child at position at; 0 when None
PrevNamedSibling(children, at) ==
  LET prior == {i \in 1..(at - 1) : children[i].named}
  IN IF prior = {} THEN 0 ELSE CHOOSE i \in prior : \A j \in prior : j <= i

\* node.next_named_sibling of the child at position at; 0 when None
NextNamedSibling(children, at) ==
  LET later == {i \in (at + 1)..Len(children) : children[i].named}
  IN IF later = {} THEN 0 ELSE CHOOSE i \in later : \A j \in later : i <= j

\* the loop `while candidate is not None and candidate.type == 'attribute'`
RECURSIVE SkipAttributes(_, _)
SkipAttributes(children, candidate) ==
  IF candidate # 0 /\ children[candidate].type = "attribute"
    THEN SkipAttributes(children, PrevNamedSibling(children, candidate))
    ELSE candidate

\* get_doc_comment taking every comment that starts with /**
get_doc_comment_any(children, at) ==
  LET candidate == SkipAttributes(children, PrevNamedSibling(children, at))
  IN IF candidate # 0 /\ children[candidate].type = "comment"
          /\ StartsWith(children[candidate].text, <<"/", "*", "*">>)
       THEN _clean_doc_comment(children[candidate].text)
       ELSE None

get_doc_comment(children, at) ==
  LET candidate == SkipAttributes(children, PrevNamedSibling(children, at))
  IN IF candidate # 0 /\ children[candidate].type = "comment"
          /\ StartsWith(children[candidate].text, <<"/", "*", "*">>)
          /\ ~StartsWith(children[candidate].text, <<"/", "*", "*", "*">>)
          /\ ~StartsWith(children[candidate].text, <<"/", "*", "*", "<">>)
       THEN _clean_doc_comment(children[candidate].text)
       ELSE None

\* the loop over node.parent.children of get_trailing_doc_comment, from
\* the child after the node on
RECURSIVE TrailingAmong(_, _, _)
TrailingAmong(children, at, i) ==
  IF i > Len(children) THEN None
  ELSE IF children[i].type = "comment"
            /\ StartsWith(children[i].text, <<"/", "*", "*", "<">>)
            /\ children[i].row = children[at].end_row
    THEN _clean_trailing_doc_comment(children[i].text)
  ELSE IF children[i].row > children[at].end_row THEN None
  ELSE TrailingAmong(children, at, i + 1)

get_trailing_doc_comment(children, at) ==
  LET sibling == NextNamedSibling(children, at)
  IN IF sibling # 0 /\ children[sibling].type = "comment"
          /\ StartsWith(children[sibling].text, <<"/", "*", "*", "<">>)
          /\ children[sibling].row = children[at].end_row
       THEN _clean_trailing_doc_comment(children[sibling].text)
       ELSE TrailingAmong(children, at, at + 1)

get_field_doc_comment(children, at) ==
  LET doc == get_doc_comment(children, at)
  IN IF doc # None THEN doc ELSE get_trailing_doc_comment(children, at)

\* the doc _extract_enum_values gives the enum value at position at
EnumValueDoc(children, at) ==
  LET doc == get_field_doc_comment(children, at)
  IN IF doc = None THEN get_trailing_doc_comment(children, at) ELSE doc

(***************************************************************************)
(* The doc comment functions applied to a member of a block that was       *)
(* drawn: job.walk holds the children of the block and the position of the *)
(* member, observed the doc the last call returned.                        *)
(***************************************************************************)
\* the texts of the doc comments and the docs they hold
DocTexts ==
  { <<<<"/","*","*"," ","d"," ","*","/">>,
      <<"d">>>>,
    <<<<"/","*","*"," ","d","\n"," ","*"," ","e","\n"," ","*","/">>,
      <<"d","\n","e">>>>,
    <<<<"/","*","*","\n"," ","*"," ","d"," ","*","/">>,
      <<"d">>>>,
    <<<<"/","*","*","<"," ","t"," ","*","/">>,
      <<"t">>>> }

\* the texts of the comments: the doc comments, a banner, a plain comment
CommentTexts ==
  {e[1] : e \in DocTexts} \cup { <<"/","*","*","*"," ","d"," ","*","/">>,
    <<"/","*"," ","d"," ","*","/">> }

\* what a child is: a member on one line or on two, an attribute, a comma,
\* a comment; lines is the number of lines it takes
ChildShapes ==
  [type : {"enum_field"}, named : {TRUE}, text : {<<>>}, lines : {1, 2}]
    \cup [type : {"attribute"}, named : {TRUE}, text : {<<>>}, lines : {1}]
    \cup [type : {","}, named : {FALSE}, text : {<<>>}, lines : {1}]
    \cup [type : {"comment"}, named : {TRUE}, text : CommentTexts,
          lines : {1}]

\* the children laid out on rows: child i starts on the row on which child
\* i - 1 ends, or on the next row where breaks[i] holds
RECURSIVE Laid(_, _, _, _)
Laid(shapes, breaks, i, row) ==
  IF i > Len(shapes) THEN <<>>
  ELSE LET start == IF breaks[i] THEN row + 1 ELSE row
           end == start + shapes[i].lines - 1
       IN <<[type |-> shapes[i].type, named |-> shapes[i].named,
             text |-> shapes[i].text, row |-> start, end_row |-> end]>>
            \o Laid(shapes, breaks, i + 1, end)

\* the line breaks before the children of a block of n children: the first
\* child is on row 0, each other on the line of the child before it or on
\* the next line
Breaks(n) == {b \in [1..n -> BOOLEAN] : ~b[1]}

InitDoc ==
  /\ index = EmptyIndex
  /\ added = <<>>
  /\ last = [op |-> "init", file |-> "", source |-> NoSource]
  /\ pc = "idle"
  /\ \E n \in 1..MaxSiblings :
       \E shapes \in [1..n -> ChildShapes], breaks \in Breaks(n) :
         \E at \in {i \in 1..n : shapes[i].type = "enum_field"} :
           job = [walk |-> <<[children |-> Laid(shapes, breaks, 1, 0),
                              at |-> at]>>,
                  before |-> EmptyIndex, after |-> EmptyIndex]
  /\ observed = NoSymbol

\* get_doc_comment(node)
GetDocComment ==
  /\ pc = "idle"
  /\ job.walk # <<>>
  /\ observed' = [doc |-> get_doc_comment(Head(job.walk).children,
                                          Head(job.walk).at)]
  /\ last' = Called("get_doc_comment", "", Head(job.walk))
  /\ job' = [job EXCEPT !.walk = Tail(@)]
  /\ UNCHANGED <<index, added, pc>>

\* get_field_doc_comment(node), as _extract_fields calls it
GetFieldDocComment ==
  /\ pc = "idle"
  /\ job.walk # <<>>
  /\ observed' = [doc |-> get_field_doc_comment(Head(job.walk).children,
                                                Head(job.walk).at)]
  /\ last' = Called("get_field_doc_comment", "", Head(job.walk))
  /\ job' = [job EXCEPT !.walk = Tail(@)]
  /\ UNCHANGED <<index, added, pc>>

\* the doc of an enum value, as _extract_enum_values computes it
GetEnumValueDoc ==
  /\ pc = "idle"
  /\ job.walk # <<>>
  /\ observed' = [doc |-> EnumValueDoc(Head(job.walk).children,
                                       Head(job.walk).at)]
  /\ last' = Called("_extract_enum_values", "", Head(job.walk))
  /\ job' = [job EXCEPT !.walk = Tail(@)]
  /\ UNCHANGED <<index, added, pc>>

NextDoc ==
  \/ GetDocComment
  \/ GetFieldDocComment
  \/ GetEnumValueDoc

SpecDoc == InitDoc /\ [][NextDoc]_vars

(***************************************************************************)
(* The server (server.py): notifications and queries.                      *)
(*                                                                         *)
(* A handler is followed through its calls: pc = "remove" before the call  *)
(* of remove_file, pc = "insert" between remove_file and the read and      *)
(* _index_source, pc = "idle" when no handler runs.  job.walk is the list  *)
(* of the files the handler still has to index, each with what reading it  *)
(* gives (for did_open and did_change: the document's text).               *)
(***************************************************************************)
\* Indexer.index_workspace: index_file for every file os.walk finds
RECURSIVE index_workspace(_, _)
index_workspace(idx, walk) ==
  IF walk = <<>> THEN idx
  ELSE index_workspace(index_file(idx, Head(walk).file, Head(walk).read),
                       Tail(walk))

\* what os.walk may find: the files in any order, each with its reading
Walks ==
  {w \in SeqsUpTo([file : Files, read : ShortSources \cup {OSError}],
                  Cardinality(Files)) :
     \A i, j \in 1..Len(w) : i # j => w[i].file # w[j].file}

\* the handlers as coroutines that give way to other messages
CanDispatch_anytime == TRUE

\* The handlers are plain functions, which the server runs to their end
\* before it reads the next message.
CanDispatch == pc = "idle"

\* a notification is dispatched to its handler, which has walk to index
Begin(walk) ==
  /\ CanDispatch
  /\ pc' = IF walk = <<>> THEN "idle" ELSE "remove"
  /\ job' = [walk |-> walk, before |-> index,
             after |-> index_workspace(index, walk)]
  /\ observed' = NoSymbol
  /\ UNCHANGED <<index, added, last>>

\* did_open: indexer.index_source(path, text)
DidOpen(path, text) ==
  Begin(<<[file |-> path, read |-> text]>>)

\* did_change: indexer.index_source(path, doc.source)
DidChange(path, text) ==
  Begin(<<[file |-> path, read |-> text]>>)

\* did_save: indexer.index_file(path)
DidSave(path, read) ==
  Begin(<<[file |-> path, read |-> read]>>)

\* on_initialized: indexer.index_workspace(path)
OnInitialized(walk) == Begin(walk)

\* self.index.remove_file(filepath)
StepRemove ==
  /\ pc = "remove"
  /\ index' = remove_file(index, Head(job.walk).file)
  /\ pc' = "insert"
  /\ UNCHANGED <<added, last, job, observed>>

\* the read of index_file, then self._index_source(filepath, source)
StepInsert ==
  /\ pc = "insert"
  /\ index' = IF Head(job.walk).read = OSError THEN index
              ELSE _index_source(index, Head(job.walk).file,
                                 Head(job.walk).read)
  /\ job' = [job EXCEPT !.walk = Tail(@)]
  /\ pc' = IF Tail(job.walk) = <<>> THEN "idle" ELSE "remove"
  /\ UNCHANGED <<added, last, observed>>

\* a query (goto_definition, hover) resolving a name
Query(name, current_package) ==
  /\ CanDispatch
  /\ observed' = resolve(index, name, current_package)
  /\ UNCHANGED <<index, added, last, pc, job>>

NextServer ==
  \/ \E f \in Files, c \in ShortSources : DidOpen(f, c)
  \/ \E f \in Files, c \in ShortSources : DidChange(f, c)
  \/ \E f \in Files, r \in ShortSources \cup {OSError} : DidSave(f, r)
  \/ \E w \in Walks : OnInitialized(w)
  \/ StepRemove
  \/ StepInsert
  \/ \E n \in TypeNames, p \in Packages \cup {None} : Query(n, p)

SpecServer == Init /\ [][NextServer]_vars

(***************************************************************************)
(* The index under the operations of Indexer and remove_file, the files    *)
(* declaring structs whose names differ in case only, with and without a   *)
(* @ctype override.                                                        *)
(***************************************************************************)
\* `@ctype(<ctype>) struct <name> {};`
CTypeNode(name, ctype) == [StructNode(name) EXCEPT !.ctype = ctype]

CaseNodes ==
  { StructNode(<<"A","b">>), CTypeNode(<<"A","B">>, <<"x","_","_","t">>) }

\* up to MaxDecls declarations of the package p, or one declaration at most
\* of another package
CaseSources ==
  [package : {<<"p">>}, children : SeqsUpTo(CaseNodes, MaxDecls)]
    \cup [package : Packages, children : SeqsUpTo(CaseNodes, 1)]

\* the contents a file on disk is drawn from
ShortCaseSources == {c \in CaseSources : Len(c.children) <= 1}

\* what os.walk may find: the files in any order, each unreadable or of
\* the package p
CaseWalks ==
  {w \in SeqsUpTo([file : Files,
                   read : {c \in ShortCaseSources : c.package = <<"p">>}
                            \cup {OSError}],
                  Cardinality(Files)) :
     \A i, j \in 1..Len(w) : i # j => w[i].file # w[j].file}

\* the symbols added, in order, after the files of walk were indexed
RECURSIVE AddedAfter(_, _)
AddedAfter(list, walk) ==
  IF walk = <<>> THEN list
  ELSE AddedAfter(NotOfFile(list, Head(walk).file)
                    \o Declared(Head(walk).file, Head(walk).read),
                  Tail(walk))

\* Indexer.index_workspace(root_path), os.walk finding the files of walk
IndexWorkspace(walk) ==
  /\ index' = index_workspace(index, walk)
  /\ added' = AddedAfter(added, walk)
  /\ last' = Called("index_workspace", "", walk)
  /\ UNCHANGED <<pc, job, observed>>

NextCase ==
  \/ \E f \in Files, c \in CaseSources : IndexSource(f, c)
  \/ \E f \in Files, r \in ShortCaseSources \cup {OSError} : IndexFile(f, r)
  \/ \E w \in CaseWalks : IndexWorkspace(w)
  \/ \E f \in Files : RemoveFile(f)

SpecCase == Init /\ [][NextCase]_vars

(***************************************************************************)
(* The views of the index.                                                 *)
(***************************************************************************)
\* the symbols held in the buckets of the dict of lists d
Bucketed(d) == UNION {Range(d[k]) : k \in DOMAIN d}

\* the symbols held as values of the dict d
Stored(d) == {d[k] : k \in DOMAIN d}

\* the symbols held in some by-simple-name, by-package or by-file bucket
HeldSymbols(idx) ==
  Bucketed(idx.by_name) \cup Bucketed(idx.by_package) \cup Bucketed(idx.by_file)

\* the symbols held in any view
AllSymbols(idx) ==
  HeldSymbols(idx) \cup Stored(idx.by_qualified_name) \cup Stored(idx.by_c_name)

InByFile(idx, s) == s \in Range(Get(idx.by_file, s.file, <<>>))

InByName(idx, s) == s \in Range(Get(idx.by_name, s.name, <<>>))

InByPackage(idx, s) == s \in Range(Get(idx.by_package, s.package, <<>>))

InByQualifiedName(idx, s) ==
  /\ s.qualified_name \in DOMAIN idx.by_qualified_name
  /\ idx.by_qualified_name[s.qualified_name] = s

InByCName(idx, s) ==
  /\ iop_type_to_c(s.qualified_name) \in DOMAIN idx.by_c_name
  /\ idx.by_c_name[iop_type_to_c(s.qualified_name)] = s

InAllViews(idx, s) ==
  /\ InByFile(idx, s)
  /\ InByName(idx, s)
  /\ InByPackage(idx, s)
  /\ InByQualifiedName(idx, s)
  /\ InByCName(idx, s)

InNoView(idx, s) == s \notin AllSymbols(idx)

\* by_name and by_name_keys describe one dict
TypeOK ==
  /\ Range(index.by_name_keys) = DOMAIN index.by_name
  /\ Cardinality(DOMAIN index.by_name) = Len(index.by_name_keys)
  /\ pc \in {"idle", "remove", "insert"}

(***************************************************************************)
(* C1.  In every reachable state the views agree: a symbol is listed under *)
(* its file in by_file if and only if it is in the by_name bucket of its   *)
(* name, in the by_package bucket of its package, is the value of          *)
(* by_qualified_name under its qualified name and the value of by_c_name   *)
(* under its derived C name.                                               *)
(***************************************************************************)
C1_ViewsAgree ==
  \A s \in AllSymbols(index) :
    InByFile(index, s) <=> /\ InByName(index, s)
                           /\ InByPackage(index, s)
                           /\ InByQualifiedName(index, s)
                           /\ InByCName(index, s)

(***************************************************************************)
(* C2.  An operation on a file other than F leaves every symbol of F that  *)
(* is present in every view present in every view.                         *)
(***************************************************************************)
C2_OtherFilesKeepSymbol ==
  [][\A s \in AllSymbols(index) :
       (InAllViews(index, s) /\ last'.file # s.file) => InAllViews(index', s)]_vars

(***************************************************************************)
(* C3.  Re-index replaces: when index_source(F, c2) follows                *)
(* index_source(F, c1), every symbol that c1 declared and c2 does not      *)
(* declare is in no view afterwards, and every symbol c2 declares is in    *)
(* all views.                                                              *)
(***************************************************************************)
C3_ReindexReplaces ==
  [][(last.op = "index_source" /\ last'.op = "index_source"
        /\ last'.file = last.file)
      => LET F == last'.file
             c1 == Declared(F, last.source)
             c2 == Declared(F, last'.source)
         IN /\ \A s \in Range(c1) :
                 s \notin Range(c2) => InNoView(index', s)
            /\ \A s \in Range(c2) : InAllViews(index', s)]_vars

(***************************************************************************)
(* C4.  When index_file(path) cannot read the file, the by_file list and   *)
(* the package_of_file entry of path are as before the call, and every     *)
(* symbol of path that was in a view is still in it.                       *)
(***************************************************************************)
C4_UnreadableFileKeepsEntries ==
  [][(last'.op = "index_file" /\ last'.source = OSError)
      => LET F == last'.file
         IN /\ Get(index'.by_file, F, <<>>) = Get(index.by_file, F, <<>>)
            /\ Get(index'.package_of_file, F, None)
                 = Get(index.package_of_file, F, None)
            /\ \A s \in Range(Get(index.by_file, F, <<>>)) :
                 /\ InByName(index, s) => InByName(index', s)
                 /\ InByPackage(index, s) => InByPackage(index', s)
                 /\ InByQualifiedName(index, s) => InByQualifiedName(index', s)
                 /\ InByCName(index, s) => InByCName(index', s)]_vars

(***************************************************************************)
(* C6.  No two distinct symbols held in a by_name, by_package or by_file   *)
(* bucket have the same qualified name.                                    *)
(***************************************************************************)
C6_QualifiedNameUnique ==
  \A s, t \in HeldSymbols(index) :
    s # t => s.qualified_name # t.qualified_name

(***************************************************************************)
(* C7.  After remove_file(path), on an index built by add_symbol and       *)
(* remove_file calls, no view holds a symbol whose file is path, and no    *)
(* by_package or by_name bucket is an empty list.                          *)
(***************************************************************************)
C7_RemoveFileRemovesAll ==
  last.op = "remove_file" =>
    /\ \A s \in AllSymbols(index) : s.file # last.file
    /\ \A k \in DOMAIN index.by_name : index.by_name[k] # <<>>
    /\ \A k \in DOMAIN index.by_package : index.by_package[k] # <<>>


(***************************************************************************)
(* C5.  Whenever the server can dispatch a request, every file shows       *)
(* either all it showed when the last notification arrived or all it shows *)
(* when that notification's handler has run to its end: no query sees a    *)
(* file whose symbols are removed and not yet replaced.                    *)
(***************************************************************************)
\* what the views hold for the file F
FileView(idx, F) ==
  [by_file |-> Get(idx.by_file, F, <<>>),
   package |-> Get(idx.package_of_file, F, None),
   by_name |-> {s \in Bucketed(idx.by_name) : s.file = F},
   by_package |-> {s \in Bucketed(idx.by_package) : s.file = F},
   by_qualified_name |-> {s \in Stored(idx.by_qualified_name) : s.file = F},
   by_c_name |-> {s \in Stored(idx.by_c_name) : s.file = F}]

C8_IndexSourceIdempotent ==
  last.op = "index_source" =>
    index_source(index, last.file, last.source) = index

\* index_source was applied to a file that shares a by_name bucket and a
\* qualified name with another file
C8_Witness ==
  /\ last.op = "index_source"
  /\ \E s, t \in HeldSymbols(index) :
       /\ s.file = last.file
       /\ t.file # last.file
       /\ s.qualified_name = t.qualified_name
  /\ Len(Get(index.by_file, last.file, <<>>)) = 2

(***************************************************************************)
(* C9.  When a simple name has two or more candidates and one of them is   *)
(* of current_package, resolve returns a candidate of current_package.     *)
(***************************************************************************)
C9_ResolvePrefersCurrentPackage ==
  \A name \in TypeNames, current_package \in Packages :
    LET candidates == Get(index.by_name, name, <<>>) IN
    (Len(candidates) >= 2
       /\ \E i \in 1..Len(candidates) :
            candidates[i].package = current_package)
    => /\ resolve(index, name, current_package) \in Range(candidates)
       /\ resolve(index, name, current_package).package = current_package

\* the candidate of the current package is not the first one
C9_Witness ==
  \E name \in TypeNames, current_package \in Packages :
    LET candidates == Get(index.by_name, name, <<>>) IN
    /\ Len(candidates) >= 2
    /\ candidates[1].package # current_package
    /\ candidates[2].package = current_package
    /\ resolve(index, name, current_package) = candidates[2]

(***************************************************************************)
(* C10.  For a simple name, resolve returns no symbol when no indexed      *)
(* symbol has the name, the symbol when exactly one has it, and, when      *)
(* several have it and none is of current_package (or current_package is   *)
(* not given), the one of them that was added to the index earliest.       *)
(***************************************************************************)
\* the indexed symbols of that name, in the order they were added
AddedWithName(name) == SelectSeq(added, LAMBDA s : s.name = name)

C10_ResolveSimpleName ==
  \A name \in TypeNames, current_package \in Packages \cup {None} :
    LET cands == AddedWithName(name)
        r == resolve(index, name, current_package)
    IN /\ cands = <<>> => r = NoSymbol
       /\ Len(cands) = 1 => r = cands[1]
       /\ (Len(cands) >= 2
             /\ \A i \in 1..Len(cands) : cands[i].package # current_package)
          => r = cands[1]

\* several candidates of two files, none of the current package, the
\* earliest added being of the file that comes last in the by_file view
C10_Witness ==
  \E name \in TypeNames, current_package \in Packages \cup {None} :
    LET cands == AddedWithName(name) IN
    /\ Len(cands) >= 2
    /\ \A i \in 1..Len(cands) : cands[i].package # current_package
    /\ cands[1].file = "/b.iop"
    /\ cands[2].file = "/a.iop"
    /\ resolve(index, name, current_package) = cands[1]

(***************************************************************************)
(* C11.  For a name that contains a dot, resolve gives the same answer for *)
(* every current_package: the value of by_qualified_name under the name    *)
(* when there is one; otherwise the first symbol, in the by_package bucket *)
(* of the part before the last dot, whose name is the part after it;       *)
(* otherwise no symbol.  A symbol it returns has the part before the last  *)
(* dot as package and the part after it as name.                           *)
(***************************************************************************)
\* the dotted names asked for: the qualified names of the model, a name of
\* a package that is never indexed, and the two-segment package name itself
DottedNames ==
  {p \o <<".">> \o n : p \in Packages, n \in TypeNames}
    \cup {<<"q",".","A">>, <<"p",".","q">>}

C11_ResolveQualifiedName ==
  \A name \in DottedNames, current_package \in Packages \cup {None} :
    LET r == resolve(index, name, current_package)
        d == LastDot(name)
        pkg == SubSeq(name, 1, d - 1)
        type_name == SubSeq(name, d + 1, Len(name))
        bucket == Get(index.by_package, pkg, <<>>)
        hits == {i \in 1..Len(bucket) : bucket[i].name = type_name}
    IN /\ name \in DOMAIN index.by_qualified_name
            => r = index.by_qualified_name[name]
       /\ (name \notin DOMAIN index.by_qualified_name /\ hits # {})
            => \E i \in hits : r = bucket[i] /\ \A j \in hits : i <= j
       /\ (name \notin DOMAIN index.by_qualified_name /\ hits = {})
            => r = NoSymbol
       /\ r # NoSymbol => (r.package = pkg /\ r.name = type_name)

\* a name of the two-segment package that by_qualified_name does not hold is
\* found in the bucket of its package, while a name of another package with
\* the same type part is not found
C11_Witness ==
  \E n \in TypeNames :
    LET name == <<"p",".","q",".">> \o n
        other == <<"p",".">> \o n
    IN /\ name \notin DOMAIN index.by_qualified_name
       /\ resolve(index, name, <<"p">>) # NoSymbol
       /\ resolve(index, name, <<"p">>).package = <<"p",".","q">>
       /\ resolve(index, other, <<"p",".","q">>) = NoSymbol

(***************************************************************************)
(* C12.  For every name of BUILTIN_TYPES and every current_package,        *)
(* resolve returns no symbol in every index state, also when the index     *)
(* holds symbols of that simple name.                                      *)
(***************************************************************************)
C12_BuiltinsNeverResolve ==
  \A name \in BUILTIN_TYPES, current_package \in Packages \cup {None} :
    resolve(index, name, current_package) = NoSymbol

\* the index holds symbols named int, one of them of the current package
C12_Witness ==
  LET candidates == Get(index.by_name, <<"i","n","t">>, <<>>) IN
  /\ Len(candidates) >= 2
  /\ candidates[2].package = <<"p">>
  /\ resolve(index, <<"i","n","t">>, <<"p">>) = NoSymbol

(***************************************************************************)
(* C14.  After add_symbol(sym) of a symbol with a @ctype override,         *)
(* by_c_name holds sym under the C name derived from its qualified name    *)
(* and under the override with its first matching suffix stripped,         *)
(* resolve_c_identifier(override) returns sym, and remove_file of the file *)
(* of a symbol with an override leaves neither of its two keys in          *)
(* by_c_name.                                                              *)
(***************************************************************************)
C14_CTypeOverride ==
  [][(last'.op = "add_symbol" /\ Truthy(added'[Len(added')].ctype))
      => LET sym == added'[Len(added')]
             derived == iop_type_to_c(sym.qualified_name)
             base == StripSuffix(sym.ctype)
         IN /\ derived \in DOMAIN index'.by_c_name
            /\ index'.by_c_name[derived] = sym
            /\ base \in DOMAIN index'.by_c_name
            /\ index'.by_c_name[base] = sym
            /\ resolve_c_identifier(index', sym.ctype) = sym
            /\ \A s \in Bucketed(index'.by_file) :
                 Truthy(s.ctype) =>
                   LET after == remove_file(index', s.file) IN
                   /\ iop_type_to_c(s.qualified_name)
                        \notin DOMAIN after.by_c_name
                   /\ StripSuffix(s.ctype) \notin DOMAIN after.by_c_name]_vars

\* the symbol added last has the override x__t__t: by_c_name holds it under
\* p__a and under x__t, while another symbol is held under x
C14_Witness ==
  /\ last.op = "add_symbol"
  /\ added # <<>>
  /\ LET sym == added[Len(added)] IN
       /\ sym.ctype = <<"x","_","_","t","_","_","t">>
       /\ Get(index.by_c_name, <<"p","_","_","a">>, NoSymbol) = sym
       /\ Get(index.by_c_name, <<"x","_","_","t">>, NoSymbol) = sym
       /\ <<"x">> \in DOMAIN index.by_c_name
       /\ resolve_c_identifier(index, sym.ctype) = sym

(***************************************************************************)
(* C13.  resolve_enum_value(value_name, current_package) returns an enum   *)
(* of current_package that declares value_name whenever one is indexed,    *)
(* whatever the order the files were indexed in; an enum of another        *)
(* package that declares it only when no enum of current_package does; no  *)
(* result only when no indexed enum declares it.  The value returned has   *)
(* that name and is one of the values of the enum returned.                *)
(***************************************************************************)
\* the indexed enums that declare value_name
DeclaringEnums(idx, value_name) ==
  {s \in Bucketed(idx.by_file) :
     /\ s.kind = "enum"
     /\ \E j \in 1..Len(s.enum_values) : s.enum_values[j].name = value_name}

C13_ResolveEnumValue ==
  \A value_name \in ValueNames \cup {<<"Z">>},
     current_package \in Packages \cup {None} :
    LET r == resolve_enum_value(index, value_name, current_package)
        declaring == DeclaringEnums(index, value_name)
        own == {s \in declaring : s.package = current_package}
    IN /\ own # {} => (r # NoSymbol /\ r.sym \in own)
       /\ (own = {} /\ declaring # {}) => (r # NoSymbol /\ r.sym \in declaring)
       /\ declaring = {} => r = NoSymbol
       /\ r # NoSymbol => /\ r.ev \in Range(r.sym.enum_values)
                          /\ r.ev.name = value_name

\* two packages declare X, the enum of the other package was indexed first
\* and comes first in by_name, and the enum of the current package is
\* returned
C13_Witness ==
  LET r == resolve_enum_value(index, <<"X">>, <<"p">>)
      first == FirstEnumValue(Values(index.by_name, index.by_name_keys),
                              <<"X">>)
  IN /\ r # NoSymbol
     /\ r.sym.package = <<"p">>
     /\ first.sym.package = <<"p",".","q">>
     /\ added[1] = first.sym

(***************************************************************************)
(* C15.  After index_source(F, c) of a source c without a package          *)
(* declaration, no view holds a symbol of F, F has no package_of_file      *)
(* entry, and what the views hold for every other file is as before the    *)
(* call.                                                                   *)
(***************************************************************************)
C15_NoPackageNoSymbols ==
  [][(last'.op = "index_source" /\ last'.source.package = None)
      => LET F == last'.file
         IN /\ \A s \in AllSymbols(index') : s.file # F
            /\ F \notin DOMAIN index'.by_file
            /\ F \notin DOMAIN index'.package_of_file
            /\ \A G \in Files \ {F} :
                 FileView(index', G) = FileView(index, G)]_vars

(***************************************************************************)
(* C16.  After index_source(F, c) of a source with a package, the by_file  *)
(* list of F holds, in order, one symbol for every top-level node that is  *)
(* a declaration of a recognized kind with its name (and, for a data       *)
(* structure, its struct/union keyword), whatever nodes without a symbol   *)
(* come before or after it, and no symbol for any other node.              *)
(***************************************************************************)
RecognizedTypes ==
  {"data_structure_definition", "class_definition", "enum_definition",
   "interface_definition", "module_definition", "typedef_definition",
   "snmp_object_definition", "snmp_table_definition",
   "snmp_interface_definition"}

\* the name a declaration declares
DeclaredName(node) ==
  IF node.type = "typedef_definition" THEN node.var_id ELSE node.id

WellFormed(node) ==
  /\ node.type \in RecognizedTypes
  /\ node.type = "data_structure_definition" => node.ds_type # None
  /\ DeclaredName(node) # None

C16_MalformedSkipped ==
  (last.op = "index_source" /\ last.source.package # None) =>
    LET ch == last.source.children
        good == {i \in 1..Len(ch) : WellFormed(ch[i])}
        syms == Get(index.by_file, last.file, <<>>)
    IN /\ Len(syms) = Cardinality(good)
       /\ {syms[k].range : k \in 1..Len(syms)} = good
       /\ \A k \in 1..Len(syms) :
            /\ syms[k].name = DeclaredName(ch[syms[k].range])
            /\ \A m \in 1..(k-1) : syms[m].range < syms[k].range
            /\ InByName(index, syms[k])
            /\ InByPackage(index, syms[k])

\* the first node has no symbol and the declaration after it is indexed
C16_Witness ==
  /\ last.op = "index_source"
  /\ last.source.package # None
  /\ Len(last.source.children) = 2
  /\ ~WellFormed(last.source.children[1])
  /\ last.source.children[1].type = "data_structure_definition"
  /\ WellFormed(last.source.children[2])
  /\ Len(Get(index.by_file, last.file, <<>>)) = 1
  /\ index.by_file[last.file][1].range = 2

(***************************************************************************)
(* C17.  After index_source(F, c) of a source with a package, for every    *)
(* well-formed declaration of c, by_qualified_name holds under             *)
(* package.Name a symbol of the kind of the declaration whose fields,      *)
(* enum values or RPCs are, in order, the members the declaration          *)
(* declares.                                                               *)
(***************************************************************************)
DeclaredKind(node) ==
  CASE node.type = "data_structure_definition" ->
         (IF node.ds_type = StructText THEN "struct" ELSE "union")
    [] node.type = "class_definition" -> "class"
    [] node.type = "enum_definition" -> "enum"
    [] node.type = "interface_definition" -> "interface"
    [] node.type = "module_definition" -> "module"
    [] node.type = "typedef_definition" -> "typedef"
    [] node.type = "snmp_object_definition" -> "snmpObj"
    [] node.type = "snmp_table_definition" -> "snmpTbl"
    [] node.type = "snmp_interface_definition" -> "snmpIface"

\* the type of the block children that are members of a declaration
MemberType(node) ==
  CASE node.type = "enum_definition" -> "enum_field"
    [] node.type = "interface_definition" -> "rpc"
    [] node.type = "module_definition" -> "module_field"
    [] OTHER -> "field"

\* the names of the members a declaration declares, in order
DeclaredMembers(node) ==
  LET members == SelectSeq(node.block,
                           LAMBDA child : child.type = MemberType(node))
  IN IF node.type \in {"typedef_definition", "snmp_interface_definition"}
       THEN <<>>
     ELSE [i \in 1..Len(members) |->
             IF members[i].type = "module_field" THEN members[i].ids[2]
             ELSE members[i].id]

\* a well-formed declaration whose fields all have their variable child
Valid(node) ==
  /\ WellFormed(node)
  /\ \A k \in 1..Len(node.block) :
       node.block[k].type = "field" => node.block[k].has_var

\* the names of the fields, enum values and RPCs of a symbol, in order
MemberNames(sym) ==
  LET all == sym.fields \o sym.enum_values \o sym.rpcs
  IN [i \in 1..Len(all) |-> all[i].name]

C17_LookupMatchesDeclaration ==
  (last.op = "index_source" /\ last.source.package # None) =>
    \A i \in 1..Len(last.source.children) :
      LET node == last.source.children[i]
          q == last.source.package \o <<".">> \o DeclaredName(node)
      IN Valid(node)
         => /\ q \in DOMAIN index.by_qualified_name
            /\ index.by_qualified_name[q].kind = DeclaredKind(node)
            /\ MemberNames(index.by_qualified_name[q]) = DeclaredMembers(node)

(***************************************************************************)
(* C18.  A field of an indexed struct, union, class or SNMP object has a   *)
(* type_ref only when its type is no builtin name: when the type is a      *)
(* builtin name type_ref is None, and when it is another name type_ref is  *)
(* that name.                                                              *)
(***************************************************************************)
C18_FieldTypeRef ==
  (last.op = "index_source" /\ last.source.package # None) =>
    \A s \in Range(Get(index.by_file, last.file, <<>>)) :
      s.kind # "module" =>
        \A k \in 1..Len(s.fields) :
          LET field == s.fields[k]
              type_text == last.source.children[s.range].block[field.range].type_text
          IN /\ type_text \in BUILTIN_TYPES => field.type_ref = None
             /\ (type_text \notin BUILTIN_TYPES /\ type_text # None)
                  => field.type_ref = type_text
             /\ field.type_ref # None => type_text \notin BUILTIN_TYPES

\* a struct is indexed with a field of a builtin type, which has no
\* type_ref, and a field of a declared type, which has it
C18_Witness ==
  /\ last.op = "index_source"
  /\ \E s \in Range(Get(index.by_file, last.file, <<>>)) :
       /\ Len(s.fields) = 2
       /\ s.fields[1].type_ref = None
       /\ last.source.children[s.range].block[s.fields[1].range].type_text
            = <<"s","t","r","i","n","g">>
       /\ s.fields[2].type_ref = <<"p",".","q",".","A">>

(***************************************************************************)
(* C19.  remove_file(path) of a path that has no by_file list and no       *)
(* package_of_file entry, as a path that was never indexed has none,       *)
(* leaves every view as it is.                                             *)
(***************************************************************************)
C19_RemoveUnindexedNoOp ==
  [][(/\ last'.op = "remove_file"
      /\ last'.file \notin DOMAIN index.by_file
      /\ last'.file \notin DOMAIN index.package_of_file)
      => index' = index]_vars

\* remove_file was called with the path that no symbol was ever added for
\* while both files have symbols
C19_Witness ==
  /\ last.op = "remove_file"
  /\ last.file = NeverIndexed
  /\ \A f \in Files : Get(index.by_file, f, <<>>) # <<>>
  /\ DOMAIN index.by_qualified_name # {}

(***************************************************************************)
(* C20.  camelcase_to_c(name) is, for every identifier over letters and    *)
(* digits, the text got by putting one underscore before each uppercase    *)
(* letter that follows a lowercase letter or a digit, one underscore       *)
(* before each uppercase letter that follows an uppercase letter and is    *)
(* followed by a lowercase letter, and lowercasing every letter; it gives  *)
(* http_code for HTTPCode, my_struct_a for MyStructA, my_struct2 for       *)
(* MyStruct2, v2_request for V2Request and url for URL.                    *)
(***************************************************************************)
\* an underscore goes before the character at position i of s
UnderscoreBefore(s, i) ==
  /\ i > 1
  /\ IsUpper(s[i])
  /\ \/ IsLower(s[i-1])
     \/ IsDigit(s[i-1])
     \/ (IsUpper(s[i-1]) /\ i < Len(s) /\ IsLower(s[i+1]))

RECURSIVE SnakeCase(_, _)
SnakeCase(s, i) ==
  IF i > Len(s) THEN <<>>
  ELSE (IF UnderscoreBefore(s, i) THEN <<"_">> ELSE <<>>)
         \o <<LowerChar(s[i])>> \o SnakeCase(s, i + 1)

C20_CamelcaseToC ==
  last.op = "camelcase_to_c" =>
    /\ observed.text = SnakeCase(last.source, 1)
    /\ \A e \in Examples : last.source = e[1] => observed.text = e[2]

\* HTTPCode was converted to http_code
C20_Witness ==
  /\ last.op = "camelcase_to_c"
  /\ last.source = <<"H","T","T","P","C","o","d","e">>
  /\ observed.text = <<"h","t","t","p","_","c","o","d","e">>

(***************************************************************************)
(* C21.  iop_type_to_c(qualified_name) is, for a name with a dot, the part *)
(* before the last dot with every dot replaced by two underscores and      *)
(* nothing else changed, then two underscores, then the part after the     *)
(* last dot in snake case; for a name without a dot it is the name in      *)
(* snake case.  It gives tstiop__my_struct_a for tstiop.MyStructA and      *)
(* test__dso__class_dso for test.dso.ClassDso.                             *)
(***************************************************************************)
\* s from position i on with every dot doubled into underscores
RECURSIVE DotsDoubled(_, _)
DotsDoubled(s, i) ==
  IF i > Len(s) THEN <<>>
  ELSE IF s[i] = "." THEN <<"_", "_">> \o DotsDoubled(s, i + 1)
  ELSE <<s[i]>> \o DotsDoubled(s, i + 1)

\* the positions of the dots of s
Dots(s) == {i \in 1..Len(s) : s[i] = "."}

C21_IopTypeToC ==
  last.op = "iop_type_to_c" =>
    LET q == last.source
        d == CHOOSE i \in Dots(q) : \A j \in Dots(q) : j <= i
    IN /\ Dots(q) = {} => observed.text = SnakeCase(q, 1)
       /\ Dots(q) # {} =>
            observed.text = DotsDoubled(SubSeq(q, 1, d - 1), 1)
                              \o <<"_", "_">>
                              \o SnakeCase(SubSeq(q, d + 1, Len(q)), 1)
       /\ \A e \in QualifiedExamples : q = e[1] => observed.text = e[2]

\* test.dso.ClassDso was converted to test__dso__class_dso
C21_Witness ==
  /\ last.op = "iop_type_to_c"
  /\ last.source = <<"t","e","s","t",".","d","s","o",".","C","l","a","s","s","D","s","o">>
  /\ observed.text = <<"t","e","s","t","_","_","d","s","o","_","_","c","l","a","s","s","_","d","s","o">>

(***************************************************************************)
(* C22.  The context found for the node under the cursor is one of         *)
(* type_ref, enum_value, field_name, enum_value_def, type_def, rpc_name    *)
(* and unknown.  It is type_ref on the type node of a field and on the     *)
(* identifier inside it, field_name on the identifier of the field in its  *)
(* variable node, enum_value_def on the identifier of an enum member, and  *)
(* enum_value on an identifier under a value or default_value node.        *)
(***************************************************************************)
Contexts ==
  {"type_ref", "enum_value", "field_name", "enum_value_def", "type_def",
   "rpc_name", "unknown"}

\* the member of the document the cursor of the last hover is in
HoveredMember == job.doc.children[last.source.decl].block[last.source.member]

C22_PositionClassification ==
  last.op = "hover" =>
    LET cur == last.source IN
    /\ observed.context \in Contexts
    /\ cur.member > 0 /\ HoveredMember.type = "field" =>
         /\ cur.token \in {"type", "type_id"} =>
              observed.context = "type_ref"
         /\ cur.token = "name" => observed.context = "field_name"
         /\ cur.token = "default" => observed.context = "enum_value"
    /\ cur.member > 0 /\ HoveredMember.type = "enum_field"
         /\ cur.token = "name" => observed.context = "enum_value_def"

\* the cursor was on the identifier of the default value of a field, and
\* the context found was enum_value
C22_Witness ==
  /\ last.op = "hover"
  /\ last.source.member > 0
  /\ HoveredMember.type = "field"
  /\ last.source.token = "default"
  /\ observed.context = "enum_value"

(***************************************************************************)
(* C23.  With the cursor on the identifier that names a declaration of     *)
(* which _extract_symbol makes a symbol, whatever its kind, the context    *)
(* found is type_def and the hover shows that symbol; with the cursor on   *)
(* the identifier that names an rpc the context found is rpc_name.         *)
(***************************************************************************)
\* the declaration of the document the cursor of the last hover is in
HoveredDecl == job.doc.children[last.source.decl]

\* the symbol _extract_symbol makes of that declaration
HoveredSymbol ==
  _extract_symbol(HoveredDecl, last.source.decl, "/a.iop", job.doc.package)

C23_DefinitionSite ==
  last.op = "hover" /\ last.source.token = "name" =>
    /\ last.source.member = 0 /\ HoveredSymbol # NoSymbol =>
         /\ observed.context = "type_def"
         /\ observed.hover = _format_symbol_hover(HoveredSymbol)
    /\ last.source.member > 0 /\ HoveredMember.type = "rpc" =>
         observed.context = "rpc_name"

\* the same for the declarations that are no typedef, the context alone
C23_ExceptTypedef ==
  last.op = "hover" /\ last.source.token = "name" =>
    /\ last.source.member = 0 /\ HoveredSymbol # NoSymbol
         /\ HoveredSymbol.kind # "typedef" => observed.context = "type_def"
    /\ last.source.member > 0 /\ HoveredMember.type = "rpc" =>
         observed.context = "rpc_name"

(***************************************************************************)
(* C28.  With the cursor on the identifier of an enum member of a          *)
(* document that was indexed, the hover shows that member and the enum     *)
(* that declares it, also when other enums declare a member of that name.  *)
(***************************************************************************)
\* the enum values of the hovered declaration that come from the member
\* the cursor is in
HoveredValues ==
  SelectSeq(HoveredSymbol.enum_values,
            LAMBDA ev : ev.range = last.source.member)

C28_HoverEnumValueDefinition ==
  last.op = "hover" /\ last.source.member > 0
      /\ HoveredMember.type = "enum_field" /\ HoveredSymbol # NoSymbol
      /\ HoveredSymbol.kind = "enum" =>
    /\ HoveredValues # <<>>
    /\ observed.hover =
         _format_enum_value_hover(HoveredSymbol, HoveredValues[1])

\* no other symbol of the index declares a member of the hovered name
OnlyDeclaringEnum ==
  \A s \in AllSymbols(index) :
    (\E i \in 1..Len(s.enum_values) :
       s.enum_values[i].name = HoveredMember.id) => (s = HoveredSymbol)

\* the same when no other enum of the index declares a member of that name
C28_SingleDeclaringEnum ==
  last.op = "hover" /\ last.source.member > 0
      /\ HoveredMember.type = "enum_field" /\ HoveredSymbol # NoSymbol
      /\ HoveredSymbol.kind = "enum" /\ OnlyDeclaringEnum =>
    /\ HoveredValues # <<>>
    /\ observed.hover =
         _format_enum_value_hover(HoveredSymbol, HoveredValues[1])

(***************************************************************************)
(* C24.  get_doc_comment returns the doc held by the comment that is the   *)
(* nearest preceding named sibling of the node that is no attribute, when  *)
(* that comment starts with /** and with neither /*** nor /**<, and None   *)
(* otherwise.  The doc of a field or enum value is that doc when there is  *)
(* one, and otherwise the trimmed text of a /**< comment that follows the  *)
(* member and starts on the row on which the member ends, None when there  *)
(* is no such comment; a /**< comment before the member is never its doc.  *)
(***************************************************************************)
\* the doc held by a comment text, None when it is no preceding doc comment
PrecedingDocOf(text) ==
  IF \E e \in DocTexts : e[1] = text /\ ~StartsWith(text, <<"/","*","*","<">>)
    THEN (CHOOSE e \in DocTexts : e[1] = text)[2]
    ELSE None

\* the trimmed text of a /**< comment, None for other comments
TrailingDocOf(text) ==
  IF \E e \in DocTexts : e[1] = text /\ StartsWith(text, <<"/","*","*","<">>)
    THEN (CHOOSE e \in DocTexts : e[1] = text)[2]
    ELSE None

\* the doc before the child at position at
PrecedingDoc(children, at) ==
  LET prior == {i \in 1..(at - 1) :
                  children[i].named /\ children[i].type # "attribute"}
  IN IF prior = {} THEN None
     ELSE LET c == children[CHOOSE i \in prior : \A j \in prior : j <= i]
          IN IF c.type = "comment" THEN PrecedingDocOf(c.text) ELSE None

\* the /**< comments after the child at position at on the row it ends on
Trailing(children, at) ==
  {i \in (at + 1)..Len(children) :
     /\ children[i].type = "comment"
     /\ TrailingDocOf(children[i].text) # None
     /\ children[i].row = children[at].end_row}

C24_DocExtraction ==
  LET children == last.source.children
      at == last.source.at
  IN /\ last.op = "get_doc_comment" =>
          observed.doc = PrecedingDoc(children, at)
     /\ last.op \in {"get_field_doc_comment", "_extract_enum_values"} =>
          /\ PrecedingDoc(children, at) # None =>
               observed.doc = PrecedingDoc(children, at)
          /\ PrecedingDoc(children, at) = None =>
               IF Trailing(children, at) = {} THEN observed.doc = None
               ELSE \E i \in Trailing(children, at) :
                      observed.doc = TrailingDocOf(children[i].text)

\* the doc of an enum value was asked for that starts a line, the line
\* before ending with the value before it and a /**< comment: it has none
C24_Witness ==
  /\ last.op = "_extract_enum_values"
  /\ last.source.at = 3
  /\ Len(last.source.children) = 3
  /\ last.source.children[2].type = "comment"
  /\ StartsWith(last.source.children[2].text, <<"/","*","*","<">>)
  /\ last.source.children[2].row < last.source.children[3].row
  /\ observed.doc = None

(***************************************************************************)
(* C25.  A call of index_source(F, c) on an index that holds F with the    *)
(* content c changes the answer of no query: resolve and                   *)
(* resolve_enum_value return, for every name and current package, a symbol *)
(* of the same qualified name as before the call, or None as before.       *)
(***************************************************************************)
\* the file is in the index with the symbols and the package of the source
IndexedWith(filepath, source) ==
  /\ source # OSError
  /\ source.package # None
  /\ Get(index.package_of_file, filepath, None) = source.package
  /\ Get(index.by_file, filepath, <<>>) = Declared(filepath, source)

\* the qualified name of the symbol a query returned
QualifiedNameOf(sym) == IF sym = NoSymbol THEN None ELSE sym.qualified_name

\* the qualified name of the enum a query for an enum value returned
EnumOf(result) ==
  IF result = NoSymbol THEN None ELSE result.sym.qualified_name

C25_ReindexKeepsAnswers ==
  [][last'.op = "index_source" /\ IndexedWith(last'.file, last'.source) =>
       \A current_package \in Packages \cup {None} :
         /\ \A name \in TypeNames \cup DottedNames :
              QualifiedNameOf(resolve(index', name, current_package))
                = QualifiedNameOf(resolve(index, name, current_package))
         /\ \A value_name \in ValueNames :
              EnumOf(resolve_enum_value(index', value_name, current_package))
                = EnumOf(resolve_enum_value(index, value_name,
                                            current_package))]_vars

(***************************************************************************)
(* C26.  In every state reached by index_source, index_file,               *)
(* index_workspace and remove_file, every symbol held in by_name,          *)
(* by_qualified_name, by_package or by_c_name is in the by_file bucket of  *)
(* its file, package_of_file has the package of the symbol for that file,  *)
(* and every symbol of a by_package bucket has the package of the bucket.  *)
(***************************************************************************)
\* the symbols the queries can return
Reachable(idx) ==
  Bucketed(idx.by_name) \cup Stored(idx.by_qualified_name)
    \cup Bucketed(idx.by_package) \cup Stored(idx.by_c_name)

C26_NoStaleSymbols ==
  /\ \A s \in Reachable(index) :
       /\ InByFile(index, s)
       /\ Get(index.package_of_file, s.file, None) = s.package
  /\ \A p \in DOMAIN index.by_package :
       \A i \in 1..Len(index.by_package[p]) : index.by_package[p][i].package = p

\* /a.iop was removed and the index holds /b.iop alone, with a symbol that
\* has two entries of by_c_name
C26_Witness ==
  /\ last.op = "remove_file"
  /\ last.file = "/a.iop"
  /\ DOMAIN index.by_file = {"/b.iop"}
  /\ Cardinality(DOMAIN index.by_c_name) = 2
  /\ Cardinality(Reachable(index)) = 1

(***************************************************************************)
(* C27.  For every symbol the index holds and every suffix of              *)
(* C_TYPE_SUFFIXES, resolve_c_identifier of the C name derived from the    *)
(* qualified name of the symbol, followed by the suffix, returns that      *)
(* symbol.                                                                 *)
(***************************************************************************)
C27_CNameRoundTrip ==
  \A sym \in Bucketed(index.by_file) :
    \A i \in 1..Len(C_TYPE_SUFFIXES) :
      resolve_c_identifier(index, iop_type_to_c(sym.qualified_name)
                                    \o C_TYPE_SUFFIXES[i]) = sym

\* the same for the states in which one file is indexed and no two of its
\* symbols have the same qualified name
C27_DistinctQualifiedNames ==
  (/\ Cardinality(DOMAIN index.by_file) = 1
   /\ \A s, t \in Bucketed(index.by_file) :
        s.qualified_name = t.qualified_name => s = t)
    => C27_CNameRoundTrip

====
